---- MODULE Spec2Model ----
(***************************************************************************)
(* Model of petalo: the LOR / voxel-box traversal and its TOF weighting    *)
(* (src/src/weights.rs), the scattergram and its axes                      *)
(* (src/src/lorogram), and the MLEM iteration of src/src/bin/mlem.rs.      *)
(*                                                                         *)
(* Specifications.  Each component has its own variables and its own       *)
(* specification; the variables of the other components stay Idle:         *)
(*   Spec                 WeightsAlongLOR::new and next                    *)
(*   SpecScattergram      Scattergram::new, fill and triplet               *)
(*   SpecFillScattergram  fill_scattergram over a sequence of records      *)
(*   SpecCyclic           a histogram over one Cyclic<f32> axis            *)
(*   SpecMlem             the MLEM iteration, LORs shared among workers    *)
(*   SpecTof              WeightsAlongLOR mapped through tof_gaussian      *)
(*   SpecGauss            make_gauss of gauss.rs and of weights.rs         *)
(*   SpecReadLors         read_lors of io/hdf5.rs over a table of records  *)
(*   SpecLorAxes          a Hist1D over one LOR axis (z, dz, r or phi)     *)
(*   SpecVoxelBox         VoxelBox::new and voxel_centre                   *)
(*                                                                         *)
(* Numbers.  A Length (f64) is modelled as an exact extended rational      *)
(* <<num, den>>: den > 0 is the rational num/den (in lowest terms),        *)
(* <<1,0>> is +inf, <<-1,0>> is -inf and <<0,0>> is NaN, with the IEEE-754 *)
(* rules for the operations that receive them.  Rounding is modelled only  *)
(* where a result depends on it: the coordinate of the Cyclic<f32> axis is *)
(* rounded to a 24-bit significand (RoundF32).  An adjusted TOF weight     *)
(* weight * exp(-z / 2) / (sigma * sqrt(pi)) is kept as its rational parts *)
(* weight, sigma and z.                                                    *)
(*                                                                         *)
(* Units.  |p2 - p1| is irrational in general, so every quantity that the  *)
(* code measures along the LOR (lor_direction, toi, voxel_size in LOR      *)
(* units, to_boundary, the yielded lengths) is stored divided by           *)
(* |p2 - p1|: lor_direction holds (p2 - p1), lor_length holds 1, a yielded *)
(* length 1/2 stands for half of |p2 - p1|.  For p1 = p2 the code divides  *)
(* 0 by 0 and all these quantities are NaN, in the model as in the code.   *)
(*                                                                         *)
(* Indices.  Vectors are indexed 1..3 (the code: 0..2).  A usize that      *)
(* wrapped below zero is stored as the negative number -k, which stands    *)
(* for 2^64 - k.                                                           *)
(***************************************************************************)
EXTENDS Integers, Sequences, FiniteSets, TLC

\* ------------------------------------------------------------ bounds
\* Endpoint coordinates are integers in -MaxXY..MaxXY (x, y), -MaxZ..MaxZ (z).
MaxXY == 2
MaxZ == 1
\* Voxel counts per axis range over 1..MaxN.
MaxN == 2
\* At most MaxItems calls of next() are followed (some streams never end).
MaxItems == 8

\* The number of dimensions: p1.len().
dimensions == 3
Axes == 1..dimensions

\* ------------------------------------------------------------ f64
NaN == <<0, 0>>
PosInf == <<1, 0>>
NegInf == <<-1, 0>>

AbsInt(a) == IF a < 0 THEN -a ELSE a

SignInt(a) == IF a < 0 THEN -1 ELSE IF a > 0 THEN 1 ELSE 0

RECURSIVE GCD(_, _)
GCD(a, b) == IF b = 0 THEN a ELSE GCD(b, a % b)

\* num/den in lowest terms, den /= 0.
Rat(num, den) ==
  IF den = 1 THEN <<num, 1>> ELSE
  LET g == GCD(AbsInt(num), AbsInt(den))
      s == IF den < 0 THEN -1 ELSE 1
  IN <<(s * num) \div g, (s * den) \div g>>

FromInt(a) == <<a, 1>>
Zero == <<0, 1>>
One == <<1, 1>>

IsNaN(x) == x[2] = 0 /\ x[1] = 0
IsFinite(x) == x[2] > 0
IsInf(x) == x[2] = 0 /\ x[1] # 0
\* f64::is_zero
IsZero(x) == IsFinite(x) /\ x[1] = 0

\* x < y; false when either is NaN.
Lt(x, y) ==
  /\ ~IsNaN(x)
  /\ ~IsNaN(y)
  /\ IF IsFinite(x) /\ IsFinite(y) THEN x[1] * y[2] < y[1] * x[2]
     ELSE IF IsInf(x) /\ IsInf(y) THEN x[1] < y[1]
     ELSE IF IsInf(x) THEN x[1] < 0
     ELSE y[1] > 0

Gt(x, y) == Lt(y, x)

\* x <= y; false when either is NaN.
Le(x, y) == ~IsNaN(x) /\ ~IsNaN(y) /\ ~Lt(y, x)

Ge(x, y) == Le(y, x)

Neg(x) == <<-x[1], x[2]>>

Add(x, y) ==
  IF IsNaN(x) \/ IsNaN(y) THEN NaN
  ELSE IF IsFinite(x) /\ IsFinite(y) THEN Rat(x[1] * y[2] + y[1] * x[2], x[2] * y[2])
  ELSE IF IsInf(x) /\ IsInf(y) THEN (IF x = y THEN x ELSE NaN)
  ELSE IF IsInf(x) THEN x
  ELSE y

Sub(x, y) == Add(x, Neg(y))

Mul(x, y) ==
  IF IsNaN(x) \/ IsNaN(y) THEN NaN
  ELSE IF IsFinite(x) /\ IsFinite(y) THEN Rat(x[1] * y[1], x[2] * y[2])
  ELSE IF SignInt(x[1]) * SignInt(y[1]) = 0 THEN NaN
  ELSE <<SignInt(x[1]) * SignInt(y[1]), 0>>

\* A division in which x / 0 is 0.
DivByZeroIsZero(x, y) ==
  IF IsNaN(x) \/ IsNaN(y) THEN NaN
  ELSE IF IsInf(x) /\ IsInf(y) THEN NaN
  ELSE IF IsInf(x) THEN <<x[1] * (IF y[1] < 0 THEN -1 ELSE 1), 0>>
  ELSE IF IsInf(y) THEN Zero
  ELSE IF y[1] = 0 THEN Zero
  ELSE Rat(x[1] * y[2], x[2] * y[1])

\* x / y with IEEE division by zero: a/0 is +-inf, 0/0 is NaN (zeros here are +0.0).
Div(x, y) ==
  IF IsNaN(x) \/ IsNaN(y) THEN NaN
  ELSE IF IsInf(x) /\ IsInf(y) THEN NaN
  ELSE IF IsInf(x) THEN <<x[1] * (IF y[1] < 0 THEN -1 ELSE 1), 0>>
  ELSE IF IsInf(y) THEN Zero
  ELSE IF y[1] = 0 THEN <<SignInt(x[1]), 0>>
  ELSE Rat(x[1] * y[2], x[2] * y[1])

Abs(x) == <<AbsInt(x[1]), x[2]>>

\* f64::max and f64::min: a NaN operand is ignored.
Max(x, y) == IF IsNaN(x) THEN y ELSE IF IsNaN(y) THEN x ELSE IF Lt(x, y) THEN y ELSE x

Min(x, y) == IF IsNaN(x) THEN y ELSE IF IsNaN(y) THEN x ELSE IF Lt(y, x) THEN y ELSE x

\* f64::floor: NaN and the infinities are returned unchanged.
Floor(x) == IF IsFinite(x) THEN <<x[1] \div x[2], 1>> ELSE x

\* `x as usize`: saturating, NaN becomes 0.  (Values above 2^64 do not occur.)
AsUsize(x) ==
  IF IsNaN(x) THEN 0
  ELSE IF IsFinite(x) THEN (IF x[1] < 0 THEN 0 ELSE x[1] \div x[2])
  ELSE IF x[1] < 0 THEN 0
  ELSE -1

\* `n as f64`
AsLength(n) == FromInt(n)

\* ------------------------------------------------------------ vectors
\* Vector::repeat(x)
Repeat(x) == [k \in Axes |-> x]

\* Point::new / Vector::new from integer literals
PointNew(x, y, z) == <<FromInt(x), FromInt(y), FromInt(z)>>

VSub(a, b) == [k \in Axes |-> Sub(a[k], b[k])]
VAdd(a, b) == [k \in Axes |-> Add(a[k], b[k])]
\* v * s
VScale(v, s) == [k \in Axes |-> Mul(v[k], s)]
component_mul(a, b) == [k \in Axes |-> Mul(a[k], b[k])]
component_div(a, b) == [k \in Axes |-> Div(a[k], b[k])]

\* (p2 - p1).norm() in units of |p2 - p1|: 1, and 0 for the zero vector.
Norm(v) == IF \A k \in Axes : IsZero(v[k]) THEN Zero ELSE One

\* (p2 - p1).normalize() in the same units: v / norm, which is 0/0 = NaN in
\* every component for the zero vector.
Normalize(v) == [k \in Axes |-> Div(v[k], Norm(v))]

\* Vector::argmin: the first index holding the least value (`val < the_min`).
RECURSIVE ArgminFrom(_, _, _, _)
ArgminFrom(v, i, the_i, the_min) ==
  IF i > dimensions THEN <<the_i, the_min>>
  ELSE IF Lt(v[i], the_min) THEN ArgminFrom(v, i + 1, i, v[i])
  ELSE ArgminFrom(v, i + 1, the_i, the_min)

argmin(v) == ArgminFrom(v, 2, 1, v[1])

\* ------------------------------------------------------------ Option
None == [some |-> FALSE]
Some(v) == [some |-> TRUE, val |-> v]

\* ------------------------------------------------------------ VoxelBox
VoxelBox_voxel_size(n, half_width) ==
  component_div(VScale(half_width, FromInt(2)), [k \in Axes |-> AsLength(n[k])])

VoxelBox_new(d, n) ==
  [half_width |-> d, n |-> n, voxel_size |-> VoxelBox_voxel_size(n, d)]

\* The ray cast of ncollide3d on the cuboid [-half_extents, half_extents]
\* (RayCast::toi_with_ray for Cuboid, solid = true): the slab method, axis by
\* axis from i, with the running interval [tmin, tmax].
RECURSIVE RaySlabs(_, _, _, _, _, _)
RaySlabs(half_extents, origin, dir, i, tmin, tmax) ==
  IF i > dimensions THEN Some(tmin)
  ELSE IF IsZero(dir[i])
  THEN IF Lt(origin[i], Neg(half_extents[i])) \/ Gt(origin[i], half_extents[i])
       THEN None
       ELSE RaySlabs(half_extents, origin, dir, i + 1, tmin, tmax)
  ELSE LET denom == Div(One, dir[i])
           a == Mul(Sub(Neg(half_extents[i]), origin[i]), denom)
           b == Mul(Sub(half_extents[i], origin[i]), denom)
           inter_with_near_plane == IF Gt(a, b) THEN b ELSE a
           inter_with_far_plane == IF Gt(a, b) THEN a ELSE b
           tmin2 == Max(tmin, inter_with_near_plane)
           tmax2 == Min(tmax, inter_with_far_plane)
       IN IF Gt(tmin2, tmax2) THEN None
          ELSE RaySlabs(half_extents, origin, dir, i + 1, tmin2, tmax2)

toi_with_ray(half_extents, origin, dir, max_toi) ==
  RaySlabs(half_extents, origin, dir, 1, Zero, max_toi)

\* VoxelBox::entry: the point where the LOR p1 -> p2 enters the box, if any.
entry(vbox, p1, p2) ==
  LET lor_direction == Normalize(VSub(p2, p1))
      lor_length == Norm(VSub(p2, p1))
      toi == toi_with_ray(vbox.half_width, p1, lor_direction, lor_length)
  IN IF toi.some THEN Some(VAdd(p1, VScale(lor_direction, toi.val))) ELSE None

\* ------------------------------------------------------------ WeightsAlongLOR
Outside == [tag |-> "Outside"]

\* The snap of line 112: |x| < 1e-7 becomes 0 (written without the product
\* |num| * 10^7, which would leave the checker's integers).
SnapDen == 10000000
Snap(x) ==
  IF IsFinite(x) /\ AbsInt(x[1]) <= (x[2] - 1) \div SnapDen THEN Zero ELSE x

\* The axis flip of lines 78-89: the endpoints mirrored on every axis along
\* which p2 - p1 is negative, and the record of the axes mirrored.
Flipped(p1, p2) == [k \in Axes |-> Lt(Sub(p2[k], p1[k]), Zero)]
\* A flip that folds the coordinate onto the positive side instead of
\* mirroring it.
FlipPointAbs(p, flipped) == [k \in Axes |-> IF flipped[k] THEN Abs(p[k]) ELSE p[k]]
FlipPoint(p, flipped) == [k \in Axes |-> IF flipped[k] THEN Neg(p[k]) ELSE p[k]]

\* WeightsAlongLOR::new
new(p1_0, p2_0, vbox) ==
  LET flipped == Flipped(p1_0, p2_0)
      p1 == FlipPoint(p1_0, flipped)
      p2 == FlipPoint(p2_0, flipped)
      found == entry(vbox, p1, p2)
  IN IF ~found.some THEN Outside
     ELSE
       LET shifted == VAdd(found.val, vbox.half_width)
           in_voxels == component_div(shifted, vbox.voxel_size)
           entry_point == [k \in Axes |-> Snap(in_voxels[k])]
           index == [k \in Axes |-> AsUsize(Floor(entry_point[k]))]
           lor_direction == Normalize(VSub(p2, p1))
           voxel_size == component_div(vbox.voxel_size, lor_direction)
           vox_done_fraction ==
             VSub(entry_point, [k \in Axes |-> Floor(entry_point[k])])
           to_boundary ==
             component_mul(VSub(Repeat(One), vox_done_fraction), voxel_size)
       IN [tag |-> "Inside", to_boundary |-> to_boundary, voxel_size |-> voxel_size,
           n_voxels |-> vbox.n, flipped |-> flipped, index |-> index]

\* Lines 158-162: the index in the caller's frame.  usize subtraction; a
\* difference below zero is kept negative (see the header) and reported by
\* Underflows.
TrueIndex(it) ==
  [k \in Axes |-> IF it.flipped[k] THEN it.n_voxels[k] - 1 - it.index[k]
                  ELSE it.index[k]]

Underflows(it) == \E k \in Axes : it.flipped[k] /\ it.n_voxels[k] - 1 - it.index[k] < 0

\* Lines 164-184: the iterator after one step from the Inside state `it`.
Advance(it) ==
  LET am == argmin(it.to_boundary)
      dimension == am[1]
      distance == am[2]
      moved == VSub(it.to_boundary, Repeat(distance))
      reached == [k \in Axes |-> Le(moved[k], Zero)]
      to_boundary == [k \in Axes |-> IF reached[k] THEN it.voxel_size[k] ELSE moved[k]]
      index == [k \in Axes |-> IF reached[k] THEN it.index[k] + 1 ELSE it.index[k]]
  IN IF index[dimension] >= it.n_voxels[dimension] THEN Outside
     ELSE [it EXCEPT !.to_boundary = to_boundary, !.index = index]

\* Line 189: the item yielded by a step from the Inside state `it`.
Item(it) == <<TrueIndex(it), argmin(it.to_boundary)[2]>>

\* The items the iterator `it` yields when it is drained (as by collect() or
\* sum()), cut after `fuel` items; built without overflow checks.
RECURSIVE Collect(_, _)
Collect(it, fuel) ==
  IF it.tag = "Outside" \/ fuel = 0 THEN <<>>
  ELSE <<Item(it)>> \o Collect(Advance(it), fuel - 1)

\* ------------------------------------------------------------ state
VARIABLES
  p1,    \* the first endpoint given to WeightsAlongLOR::new
  p2,    \* the second endpoint
  vbox,  \* the VoxelBox given to it
  iter,  \* the WeightsAlongLOR value: Outside, or Inside with its fields
  hits,  \* the items next() has yielded so far, in order
  ret    \* what the last call of next() did: "NotCalled", "Some", "None", "Panic"

\* The state of the other parts of the program; each part has a specification
\* of its own, in which the parts it does not use stay Idle.
VARIABLES
  sgram,          \* the Scattergram: its two histograms, trues and scatters
  filled,         \* the calls of Scattergram::fill made so far, <<kind, lor>>
  sgram_ret,      \* what the last call on the Scattergram returned
  lors,           \* the array of Hdf5Lor given to fill_scattergram
  lor_pos,        \* how many of them its loop has consumed
  cyclic_hist,    \* a histogram over one Cyclic axis: its bin values
  cyclic_filled,  \* the coordinates it was filled at so far
  cyclic_ret,     \* what the last Cyclic::index returned
  image,          \* MLEM: the current image estimate (image_old)
  sensitivity,    \* MLEM: the sensitivity image
  measured_lors,  \* MLEM: the LORs, each with its weights w_{l,v}
  back_projection,\* MLEM: the shared back-projection buffer
  shadow,         \* MLEM: the per-thread shadow buffers
  worker,         \* MLEM: what each thread is doing
  iteration,      \* MLEM: the number of images yielded so far
  tof,            \* the closure returned by tof_gaussian
  weighted,       \* the items the TOF-adjusted stream has yielded
  gauss,          \* gauss.rs: the configuration and the closure built from it
  gauss_ret,      \* gauss.rs: the last call of a gaussian and what it returned
  h5table,        \* read_lors: its arguments and the table it reads
  reader,         \* read_lors: how far it has come, and what it returned
  vcentre,        \* the last call of VoxelBox::voxel_centre and its result
  lorogram,       \* a histogram over one LOR axis (a Lorogram)
  lorogram_filled,\* the LORs it was filled with so far
  lorogram_ret    \* the last call of Lorogram::fill or value and its result

traversal_vars == <<p1, p2, vbox, iter, hits, ret>>
lorogram_vars == <<sgram, filled, sgram_ret, lors, lor_pos>>
cyclic_vars == <<cyclic_hist, cyclic_filled, cyclic_ret>>
mlem_vars == <<image, sensitivity, measured_lors, back_projection, shadow, worker, iteration>>
tof_vars == <<tof, weighted>>
gauss_vars == <<gauss, gauss_ret>>
reader_vars == <<h5table, reader>>
voxelbox_vars == <<vcentre>>
axes_vars == <<lorogram, lorogram_filled, lorogram_ret>>

vars == <<traversal_vars, lorogram_vars, cyclic_vars, mlem_vars, tof_vars, gauss_vars, reader_vars, voxelbox_vars, axes_vars>>

\* A part of the program that a specification does not use.
Idle == "idle"
LorogramIdle ==
  sgram = Idle /\ filled = Idle /\ sgram_ret = Idle /\ lors = Idle /\ lor_pos = Idle
CyclicIdle == cyclic_hist = Idle /\ cyclic_filled = Idle /\ cyclic_ret = Idle
MlemIdle ==
  /\ image = Idle /\ sensitivity = Idle /\ measured_lors = Idle
  /\ back_projection = Idle /\ shadow = Idle /\ worker = Idle /\ iteration = Idle
TofIdle == tof = Idle /\ weighted = Idle
GaussIdle == gauss = Idle /\ gauss_ret = Idle
ReaderIdle == h5table = Idle /\ reader = Idle
VoxelBoxIdle == vcentre = Idle
LorAxesIdle == lorogram = Idle /\ lorogram_filled = Idle /\ lorogram_ret = Idle
TraversalIdle ==
  /\ p1 = Idle /\ p2 = Idle /\ vbox = Idle /\ iter = Idle /\ hits = Idle /\ ret = Idle

\* The inputs explored: integer endpoints around a box of half-widths (1,1,1),
\* so that endpoints lie outside, on the surface of and inside the box.
HalfWidth == PointNew(1, 1, 1)
Points ==
  {PointNew(x, y, z) : x \in -MaxXY..MaxXY, y \in -MaxXY..MaxXY, z \in -MaxZ..MaxZ}
Boxes == {VoxelBox_new(HalfWidth, n) : n \in [Axes -> 1..MaxN]}

Init ==
  /\ p1 \in Points
  /\ p2 \in Points
  /\ vbox \in Boxes
  /\ iter = new(p1, p2, vbox)
  /\ hits = <<>>
  /\ ret = "NotCalled"
  /\ LorogramIdle /\ CyclicIdle /\ MlemIdle /\ TofIdle /\ GaussIdle /\ ReaderIdle /\ VoxelBoxIdle /\ LorAxesIdle

\* A next() on Outside that would start the traversal over instead of leaving
\* the iterator alone (what line 150 does not do).
NextOutsideRestarts ==
  /\ iter.tag = "Outside"
  /\ iter' = new(p1, p2, vbox)
  /\ ret' = "None"
  /\ UNCHANGED <<p1, p2, vbox, hits, lorogram_vars, cyclic_vars, mlem_vars, tof_vars, gauss_vars, reader_vars, voxelbox_vars, axes_vars>>

\* next() on Outside (line 150): None, nothing changes.
NextOutside ==
  /\ iter.tag = "Outside"
  /\ ret' = "None"
  /\ UNCHANGED <<p1, p2, vbox, iter, hits, lorogram_vars, cyclic_vars, mlem_vars, tof_vars, gauss_vars, reader_vars, voxelbox_vars, axes_vars>>

\* next() on Inside (lines 153-190) returning Some(item).  Where the un-flip
\* of line 160 underflows, this is the build without overflow checks.
NextInside ==
  /\ iter.tag = "Inside"
  /\ ret # "Panic"
  /\ Len(hits) < MaxItems
  /\ hits' = Append(hits, Item(iter))
  /\ iter' = Advance(iter)
  /\ ret' = "Some"
  /\ UNCHANGED <<p1, p2, vbox, lorogram_vars, cyclic_vars, mlem_vars, tof_vars, gauss_vars, reader_vars, voxelbox_vars, axes_vars>>

\* next() on Inside where line 160 underflows, built with overflow checks:
\* the subtraction panics before anything is changed.
NextPanic ==
  /\ iter.tag = "Inside"
  /\ ret # "Panic"
  /\ Len(hits) < MaxItems
  /\ Underflows(iter)
  /\ ret' = "Panic"
  /\ UNCHANGED <<p1, p2, vbox, iter, hits, lorogram_vars, cyclic_vars, mlem_vars, tof_vars, gauss_vars, reader_vars, voxelbox_vars, axes_vars>>

Next == NextOutside \/ NextInside \/ NextPanic

Spec == Init /\ [][Next]_vars

\* ------------------------------------------------------------ geometry of the claims
\* What the claims speak of, stated from the geometry alone (no use of the
\* traversal): the segment a -> b as {a + t (b - a) : 0 <= t <= 1}.

Drained == ret = "None"

InRange(index, n) == \A k \in Axes : 0 <= index[k] /\ index[k] < n[k]

RECURSIVE SumLengths(_)
SumLengths(items) ==
  IF items = <<>> THEN Zero ELSE Add(items[1][2], SumLengths(Tail(items)))

Reverse(seq) == [i \in 1..Len(seq) |-> seq[Len(seq) + 1 - i]]

\* The parameters t at which the line a + t d lies in the slab lo..hi of one
\* axis, as <<first, last>>; for d = 0 all or none (the slab is then taken
\* half-open, lo <= a < hi, as the code's floor does).
SlabInterval(a, d, lo, hi) ==
  IF IsZero(d)
  THEN IF Le(lo, a) /\ Lt(a, hi) THEN <<NegInf, PosInf>> ELSE <<PosInf, NegInf>>
  ELSE LET t1 == Div(Sub(lo, a), d)
           t2 == Div(Sub(hi, a), d)
       IN <<Min(t1, t2), Max(t1, t2)>>

RECURSIVE MaxOver(_, _)
MaxOver(f, k) == IF k = 1 THEN f[1] ELSE Max(f[k], MaxOver(f, k - 1))
RECURSIVE MinOver(_, _)
MinOver(f, k) == IF k = 1 THEN f[1] ELSE Min(f[k], MinOver(f, k - 1))

\* The part of the segment a -> b inside voxel v of the box, as the
\* parameter interval <<first, last>> (empty when first >= last).
VoxelInterval(a, b, box, v) ==
  LET iv == [k \in Axes |->
              LET lo == Sub(Mul(FromInt(v[k]), box.voxel_size[k]), box.half_width[k])
              IN SlabInterval(a[k], Sub(b[k], a[k]), lo, Add(lo, box.voxel_size[k]))]
  IN <<Max(Zero, MaxOver([k \in Axes |-> iv[k][1]], dimensions)),
       Min(One, MinOver([k \in Axes |-> iv[k][2]], dimensions))>>

\* The chord of the segment a -> b in voxel v, in units of |b - a|.
Chord(a, b, box, v) ==
  LET iv == VoxelInterval(a, b, box, v)
  IN IF a # b /\ Lt(iv[1], iv[2]) THEN Sub(iv[2], iv[1]) ELSE Zero

VoxelsOf(box) == {v \in [Axes -> 0..(MaxN - 1)] : InRange(v, box.n)}

\* The voxels in which the segment has a chord of positive length.
Crossed(a, b, box) == {v \in VoxelsOf(box) : Gt(Chord(a, b, box, v), Zero)}

\* The parameter interval of the segment within the closed box.
BoxInterval(a, b, box) ==
  LET iv == [k \in Axes |->
              LET d == Sub(b[k], a[k])
              IN IF IsZero(d)
                 THEN IF Le(Neg(box.half_width[k]), a[k]) /\ Le(a[k], box.half_width[k])
                      THEN <<NegInf, PosInf>> ELSE <<PosInf, NegInf>>
                 ELSE SlabInterval(a[k], d, Neg(box.half_width[k]), box.half_width[k])]
  IN <<Max(Zero, MaxOver([k \in Axes |-> iv[k][1]], dimensions)),
       Min(One, MinOver([k \in Axes |-> iv[k][2]], dimensions))>>

\* The segment has a point in the closed box.
Touches(a, b, box) ==
  LET iv == BoxInterval(a, b, box) IN Le(iv[1], iv[2])

\* The segment has a point strictly inside the box.
EntersInterior(a, b, box) ==
  LET iv == BoxInterval(a, b, box)
  IN /\ Lt(iv[1], iv[2])
     /\ \A k \in Axes :
          IsZero(Sub(b[k], a[k])) =>
            Lt(Neg(box.half_width[k]), a[k]) /\ Lt(a[k], box.half_width[k])

\* A LOR of positive length that touches the box without entering it.
Tangent(a, b, box) == a # b /\ Touches(a, b, box) /\ ~EntersInterior(a, b, box)

\* The length of the part of the segment a -> b inside the box, in units of
\* |b - a|; 0 when the segment misses the box.
InBoxLength(a, b, box) ==
  LET iv == BoxInterval(a, b, box)
  IN IF a # b /\ Lt(iv[1], iv[2]) THEN Sub(iv[2], iv[1]) ELSE Zero

\* Where the chord of voxel v starts along the segment.
ChordStart(a, b, box, v) == VoxelInterval(a, b, box, v)[1]

\* Point p with coordinate k negated.
Mirror(p, k) == [j \in Axes |-> IF j = k THEN Neg(p[j]) ELSE p[j]]

\* The items with index[k] replaced by n[k] - 1 - index[k].
MirrorItems(items, k, n) ==
  [i \in 1..Len(items) |->
     <<[j \in Axes |-> IF j = k THEN n[j] - 1 - items[i][1][j] ELSE items[i][1][j]],
       items[i][2]>>]

\* Draining the iterator `it` panics in a build with overflow checks.
RECURSIVE MayPanic(_, _)
MayPanic(it, fuel) ==
  /\ it.tag = "Inside"
  /\ fuel > 0
  /\ (Underflows(it) \/ MayPanic(Advance(it), fuel - 1))

\* Two usize values (a negative number stands for a wrapped one) are equal or
\* next to each other.
WithinOne(x, y) == ((x >= 0) = (y >= 0)) /\ AbsInt(x - y) <= 1

\* ------------------------------------------------------------ claims

\* C1: every item yielded by WeightsAlongLOR has 0 <= index[k] < n[k] on
\* every axis, also for LORs through voxel corners and edges and for LORs
\* that leave the box through such a point.
C1_IndicesInRange ==
  \A i \in 1..Len(hits) : InRange(hits[i][1], vbox.n)

\* C2: once the traversal is drained, the sum of the yielded lengths is the
\* length of the part of the segment p1 -> p2 inside the box (0 on a miss),
\* also when p1 or p2 lies inside the box.
C2_SumIsLengthInBox ==
  Drained => SumLengths(hits) = InBoxLength(p1, p2, vbox)

\* C3: the yielded sequence is exactly the voxels the LOR intersects, each
\* once, in order of increasing distance from p1, each with its chord length.
C3_ExactlyTheCrossedVoxels ==
  Drained =>
    /\ Len(hits) = Cardinality(Crossed(p1, p2, vbox))
    /\ \A i \in 1..Len(hits) :
         /\ hits[i][1] \in Crossed(p1, p2, vbox)
         /\ hits[i][2] = Chord(p1, p2, vbox, hits[i][1])
    /\ \A i \in 1..Len(hits) : \A j \in 1..Len(hits) :
         i < j => /\ hits[i][1] # hits[j][1]
                  /\ Lt(ChordStart(p1, p2, vbox, hits[i][1]),
                        ChordStart(p1, p2, vbox, hits[j][1]))

\* C4: two consecutive yielded indices differ by 1 on at least one axis (on
\* exactly one, except at a corner or edge), by at most 1 on every axis, and
\* only in the direction of travel; an index never repeats.
C4_ConsecutiveIndices ==
  \A i \in 1..(Len(hits) - 1) :
    LET x == hits[i][1]
        y == hits[i + 1][1]
        f == Flipped(p1, p2)
    IN /\ x # y
       /\ \A k \in Axes :
            /\ WithinOne(x[k], y[k])
            /\ y[k] - x[k] \in {0, IF f[k] THEN -1 ELSE 1}

\* C5: traversing (p2,p1) yields the items of traversing (p1,p2), reversed.
C5_ReversedLor ==
  Drained => Collect(new(p2, p1, vbox), MaxItems) = Reverse(hits)

\* C6: negating coordinate k of both endpoints yields the same lengths in the
\* same order, with index[k] replaced by n[k] - 1 - index[k].
C6_MirroredLor ==
  Drained =>
    \A k \in Axes :
      LET m == new(Mirror(p1, k), Mirror(p2, k), vbox)
      IN /\ ~MayPanic(m, MaxItems)
         /\ Collect(m, MaxItems) = MirrorItems(hits, k, vbox.n)

\* C7: the traversal is finite and yields at most n_x + n_y + n_z items.
C7_AtMostSumOfN ==
  Len(hits) <= vbox.n[1] + vbox.n[2] + vbox.n[3]

\* C8: Outside is absorbing: a call of next() on Outside returns None and
\* leaves the iterator Outside (and nothing was yielded); no step leads from
\* Outside back to Inside.
C8_OutsideAbsorbing ==
  [][iter.tag = "Outside" => (iter' = iter /\ hits' = hits /\ ret' = "None")]_vars

\* C8 witness: a traversal that yielded items, ended, and answered None.
C8_Witness ==
  iter.tag = "Outside" /\ ret = "None" /\ Len(hits) >= 2

\* C9: a LOR that does not intersect the box, or with p1 = p2, gives the
\* Outside state and no item, and raises no error.
C9_MissOrZeroLengthIsOutside ==
  (p1 = p2 \/ ~Touches(p1, p2, vbox)) =>
    (iter.tag = "Outside" /\ hits = <<>> /\ ret # "Panic")

\* C10: a LOR only tangent to the box (in the plane of a face, or touching an
\* edge or a corner) is a miss: entry returns None and nothing is yielded.
C10_TangentIsMiss ==
  Tangent(p1, p2, vbox) =>
    (entry(vbox, p1, p2) = None /\ iter.tag = "Outside" /\ hits = <<>>)

\* ============================================================ Scattergram
\* src/src/lorogram/mod.rs.  Coordinates are f32 (Lengthf32); the values used
\* here are small integers, halves and NaN, on which f32 arithmetic is exact.

\* f32::sqrt, for the squares of rationals (the only values met here); NaN
\* for NaN and for negative numbers.
Sqrt(x) ==
  IF IsNaN(x) \/ Lt(x, Zero) THEN NaN
  ELSE IF IsInf(x) THEN x
  ELSE <<CHOOSE k \in 0..x[1] : k * k = x[1], CHOOSE k \in 1..x[2] : k * k = x[2]>>

\* A LOR: its two endpoints (dt and additive_correction play no part here).
LOR_new(a, b) == [p1 |-> a, p2 |-> b]

\* ndhistogram's Uniform axis with nbins bins in [low, high): bin 0 is the
\* underflow bin, bin nbins + 1 the overflow bin; a NaN coordinate has no bin.
Uniform_new(nbins, low, high) == [num |-> nbins, low |-> low, high |-> high]

\* Uniform_index numbering the bins in [low, high) from 0, where the underflow
\* bin already is.
Uniform_index_from_zero(axis, coordinate) ==
  LET frac == Div(Sub(coordinate, axis.low), Sub(axis.high, axis.low))
  IN IF Lt(frac, Zero) THEN Some(0)
     ELSE IF Ge(frac, One) THEN Some(axis.num + 1)
     ELSE IF IsNaN(frac) THEN None
     ELSE Some(AsUsize(Mul(FromInt(axis.num), frac)))

Uniform_index(axis, coordinate) ==
  LET frac == Div(Sub(coordinate, axis.low), Sub(axis.high, axis.low))
  IN IF Lt(frac, Zero) THEN Some(0)
     ELSE IF Ge(frac, One) THEN Some(axis.num + 1)
     ELSE IF IsNaN(frac) THEN None
     ELSE Some(AsUsize(Mul(FromInt(axis.num), frac)) + 1)

Uniform_num_bins(axis) == axis.num + 2

\* The maps of the LOR axes (lines 83-93).
z_of_midpoint(lor) == Div(Add(lor.p1[3], lor.p2[3]), FromInt(2))

delta_z(lor) == Abs(Sub(lor.p1[3], lor.p2[3]))

distance_from_z_axis(lor) ==
  LET dx == Sub(lor.p2[1], lor.p1[1])
      dy == Sub(lor.p2[2], lor.p1[2])
      x1 == lor.p1[1]
      y1 == lor.p1[2]
  IN Div(Abs(Sub(Mul(dx, y1), Mul(dy, x1))), Sqrt(Add(Mul(dx, dx), Mul(dy, dy))))

\* The MappedAxis values built by axis_z, axis_dz and axis_r.
axis_z(nbins, min, max) == [axis |-> Uniform_new(nbins, min, max), map |-> "z_of_midpoint"]
axis_dz(nbins, max) == [axis |-> Uniform_new(nbins, Zero, max), map |-> "delta_z"]
axis_r(nbins, max) == [axis |-> Uniform_new(nbins, Zero, max), map |-> "distance_from_z_axis"]

\* MappedAxis::index: the index of the mapped coordinate on the inner axis.
MappedAxis_index(ax, lor) ==
  Uniform_index(ax.axis,
                CASE ax.map = "z_of_midpoint" -> z_of_midpoint(lor)
                  [] ax.map = "delta_z" -> delta_z(lor)
                  [] ax.map = "distance_from_z_axis" -> distance_from_z_axis(lor))

MappedAxis_num_bins(ax) == Uniform_num_bins(ax.axis)

\* A histogram over a tuple of LOR axes (ndhistogram!(axes...; usize)): a
\* count for every bin, a bin being one index per axis.
HistBins(axes) ==
  {b \in [1..Len(axes) -> 0..20] :
     \A a \in 1..Len(axes) : b[a] < MappedAxis_num_bins(axes[a])}

Hist_new(axes) == [axes |-> axes, values |-> [b \in HistBins(axes) |-> 0]]

\* The bin of a LOR, if every axis has one for it.
Hist_index(h, lor) ==
  IF \E a \in 1..Len(h.axes) : MappedAxis_index(h.axes[a], lor) = None
  THEN None
  ELSE Some([a \in 1..Len(h.axes) |-> MappedAxis_index(h.axes[a], lor).val])

\* Lorogram::fill (Histogram::fill): add 1 to the LOR's bin, if it has one.
Lorogram_fill(h, lor) ==
  LET i == Hist_index(h, lor)
  IN IF i.some THEN [h EXCEPT !.values[i.val] = @ + 1] ELSE h

\* Lorogram::value: the count of the LOR's bin, 0 if it has none.
Lorogram_value(h, lor) ==
  LET i == Hist_index(h, lor)
  IN IF i.some THEN h.values[i.val] ELSE 0

\* Scattergram::new: two empty histograms from the same factory.
Scattergram_new(make_empty_lorogram) ==
  [trues |-> make_empty_lorogram, scatters |-> make_empty_lorogram]

\* Scattergram::fill for the kinds it accepts (lines 29-30).
Scattergram_fill(sg, kind, lor) ==
  CASE kind = "True" -> [sg EXCEPT !.trues = Lorogram_fill(@, lor)]
    [] kind = "Scatter" -> [sg EXCEPT !.scatters = Lorogram_fill(@, lor)]

\* Scattergram::triplet (lines 44-48); the counts are cast to f32.
Scattergram_triplet(sg, lor) ==
  LET t == FromInt(Lorogram_value(sg.trues, lor))
      sc == FromInt(Lorogram_value(sg.scatters, lor))
  IN <<Div(sc, Add(t, sc)), t, sc>>

\* Scattergram::value (lines 38-42).
Scattergram_value(sg, lor) ==
  LET t == FromInt(Lorogram_value(sg.trues, lor))
      sc == FromInt(Lorogram_value(sg.scatters, lor))
  IN Div(sc, Add(t, sc))

\* ------------------------------------------------------------ bounds
\* At most MaxFills calls of Scattergram::fill are followed.
MaxFills == 2
\* fill_scattergram is given arrays of at most MaxLors records.
MaxLors == 2

\* The factories explored: the histogram of read_scattergram (hdf5.rs:128-131)
\* and the two-axis histogram of the test two_dimensions (mod.rs:157-161,
\* with 2 bins per axis).
nbins_r == 10
r_max == 120
Factories ==
  { Hist_new(<<axis_r(nbins_r, FromInt(r_max))>>),
    Hist_new(<<axis_z(2, FromInt(-10), FromInt(10)), axis_dz(2, FromInt(20))>>) }

\* The LORs explored: from (-1, y, 0) to (1, y, 8) with y = 6 (r in bin 0 of
\* 10) or y = 130 (r beyond r_max), and the first with x1, y1 or z1 NaN.
LorCoordinates ==
  { q \in {FromInt(-1), NaN} \X {FromInt(6), FromInt(130), NaN} \X {Zero, NaN}
          \X {One} \X {FromInt(6), FromInt(130)} \X {FromInt(8)} :
      \/ (\A i \in 1..6 : ~IsNaN(q[i])) /\ q[2] = q[5]
      \/ Cardinality({i \in 1..6 : IsNaN(q[i])}) = 1 /\ q[5] = FromInt(6)
                                                    /\ q[2] \in {FromInt(6), NaN} }

SgLors == {LOR_new(<<q[1], q[2], q[3]>>, <<q[4], q[5], q[6]>>) : q \in LorCoordinates}

Kinds == {"True", "Scatter", "Random"}

InitScattergram ==
  /\ sgram \in {Scattergram_new(f) : f \in Factories}
  /\ filled = <<>>
  /\ sgram_ret = [kind |-> "NotCalled"]
  /\ lors = <<>>
  /\ lor_pos = 0
  /\ TraversalIdle /\ CyclicIdle /\ MlemIdle /\ TofIdle /\ GaussIdle /\ ReaderIdle /\ VoxelBoxIdle /\ LorAxesIdle

\* Scattergram::fill(kind, lor) with kind True or Scatter.
Fill ==
  /\ sgram_ret.kind # "Panic"
  /\ Len(filled) < MaxFills
  /\ \E kind \in {"True", "Scatter"}, lor \in SgLors :
       /\ sgram' = Scattergram_fill(sgram, kind, lor)
       /\ filled' = Append(filled, <<kind, lor>>)
  /\ sgram_ret' = [kind |-> "Unit"]
  /\ UNCHANGED <<lors, lor_pos, traversal_vars, cyclic_vars, mlem_vars, tof_vars, gauss_vars, reader_vars, voxelbox_vars, axes_vars>>

\* Scattergram::fill(Prompt::Random, lor): panics (line 31).
FillRandom ==
  /\ sgram_ret.kind # "Panic"
  /\ sgram_ret' = [kind |-> "Panic"]
  /\ UNCHANGED <<sgram, filled, lors, lor_pos, traversal_vars, cyclic_vars, mlem_vars, tof_vars, gauss_vars, reader_vars, voxelbox_vars, axes_vars>>

\* Scattergram::triplet(lor); value(lor) returns its first component.
Triplet ==
  /\ sgram_ret.kind # "Panic"
  /\ \E lor \in SgLors : sgram_ret' = [kind |-> "Triplet", lor |-> lor, triplet |-> Scattergram_triplet(sgram, lor)]
  /\ UNCHANGED <<sgram, filled, lors, lor_pos, traversal_vars, cyclic_vars, mlem_vars, tof_vars, gauss_vars, reader_vars, voxelbox_vars, axes_vars>>

NextScattergram == Fill \/ FillRandom \/ Triplet

SpecScattergram == InitScattergram /\ [][NextScattergram]_vars

\* ------------------------------------------------------------ claims on the Scattergram
\* What the claims speak of.  The bin of coordinate x on an axis that divides
\* [low, high) into num equal intervals, numbered 1..num, with 0 below low
\* and num + 1 from high on; stated from the intervals, not from the code.
IntervalOf(axis, x) ==
  LET w == Div(Sub(axis.high, axis.low), FromInt(axis.num))
  IN IF IsNaN(x) THEN None
     ELSE IF Lt(x, axis.low) THEN Some(0)
     ELSE IF Ge(x, axis.high) THEN Some(axis.num + 1)
     ELSE Some(CHOOSE k \in 1..axis.num :
                 /\ Le(Add(axis.low, Mul(FromInt(k - 1), w)), x)
                 /\ Lt(x, Add(axis.low, Mul(FromInt(k), w))))

CoordinateOf(ax, lor) ==
  CASE ax.map = "z_of_midpoint" -> z_of_midpoint(lor)
    [] ax.map = "delta_z" -> delta_z(lor)
    [] ax.map = "distance_from_z_axis" -> distance_from_z_axis(lor)

\* The LOR maps to bin b of a histogram with these axes.
MapsTo(axes, lor, b) ==
  \A a \in 1..Len(axes) : IntervalOf(axes[a].axis, CoordinateOf(axes[a], lor)) = Some(b[a])

\* The bins that filling the LOR into histogram h changes.
BinsFilled(h, lor) ==
  {b \in DOMAIN h.values : Lorogram_fill(h, lor).values[b] # h.values[b]}

\* The count that a query for the LOR has to read in h: that of the bin a
\* fill would increment, 0 if a fill increments none.
CountToRead(h, lor) ==
  IF BinsFilled(h, lor) = {} THEN 0 ELSE h.values[CHOOSE b \in BinsFilled(h, lor) : TRUE]

IsAnswer(r) == r.kind = "Triplet"

\* C11: Scattergram::triplet and value return scatters / (trues + scatters)
\* for the LOR's bin, and 0 when trues + scatters = 0.
C11_ValueIsRatioOrZero ==
  IsAnswer(sgram_ret) =>
    LET lor == sgram_ret.lor
        t == Lorogram_value(sgram.trues, lor)
        sc == Lorogram_value(sgram.scatters, lor)
        want == IF t + sc = 0 THEN Zero ELSE Rat(sc, t + sc)
    IN sgram_ret.triplet[1] = want /\ Scattergram_value(sgram, lor) = want

Energies == {<<FromInt(511), FromInt(600)>>, <<FromInt(510), FromInt(600)>>, <<NaN, FromInt(510)>>}

\* The Hdf5Lor records explored (dt, q1, q2 play no part).
Hdf5Lors ==
  {[x1 |-> q[1], y1 |-> q[2], z1 |-> q[3], x2 |-> q[4], y2 |-> q[5], z2 |-> q[6],
    E1 |-> e[1], E2 |-> e[2]] : q \in LorCoordinates, e \in Energies}

\* impl From<Hdf5Lor> for LOR.
LOR_from(lor) == LOR_new(<<lor.x1, lor.y1, lor.z1>>, <<lor.x2, lor.y2, lor.z2>>)

SeqsUpTo(S, n) == UNION {[1..k -> S] : k \in 0..n}

\* fill_scattergram(make_empty_lorogram, lors), before the loop.
InitFillScattergram ==
  /\ sgram \in {Scattergram_new(f) : f \in Factories}
  /\ lors \in SeqsUpTo(Hdf5Lors, MaxLors)
  /\ lor_pos = 0
  /\ filled = <<>>
  /\ sgram_ret = [kind |-> "NotCalled"]
  /\ TraversalIdle /\ CyclicIdle /\ MlemIdle /\ TofIdle /\ GaussIdle /\ ReaderIdle /\ VoxelBoxIdle /\ LorAxesIdle

\* One turn of the loop over lors.
FillScattergramStep ==
  /\ lor_pos < Len(lors)
  /\ LET h5lor == lors[lor_pos + 1]
     IN IF IsNaN(h5lor.x1) \/ IsNaN(h5lor.x2)
        THEN UNCHANGED <<sgram, filled>>
        ELSE LET prompt == IF Lt(Min(h5lor.E1, h5lor.E2), FromInt(511)) THEN "Scatter" ELSE "True"
             IN /\ sgram' = Scattergram_fill(sgram, prompt, LOR_from(h5lor))
                /\ filled' = Append(filled, <<prompt, LOR_from(h5lor)>>)
  /\ lor_pos' = lor_pos + 1
  /\ UNCHANGED <<lors, sgram_ret, traversal_vars, cyclic_vars, mlem_vars, tof_vars, gauss_vars, reader_vars, voxelbox_vars, axes_vars>>

\* The loop is over: the Scattergram is returned.
FillScattergramReturn ==
  /\ lor_pos = Len(lors)
  /\ sgram_ret.kind = "NotCalled"
  /\ sgram_ret' = [kind |-> "Returned"]
  /\ UNCHANGED <<sgram, filled, lors, lor_pos, traversal_vars, cyclic_vars, mlem_vars, tof_vars, gauss_vars, reader_vars, voxelbox_vars, axes_vars>>

NextFillScattergram == FillScattergramStep \/ FillScattergramReturn

SpecFillScattergram == InitFillScattergram /\ [][NextFillScattergram]_vars

\* ------------------------------------------------------------ claims on fill_scattergram
HasNaNCoordinate(h5lor) ==
  \E c \in {h5lor.x1, h5lor.y1, h5lor.z1, h5lor.x2, h5lor.y2, h5lor.z2} : IsNaN(c)

RECURSIVE SumOver(_, _)
SumOver(f, S) ==
  IF S = {} THEN 0 ELSE LET b == CHOOSE b \in S : TRUE IN f[b] + SumOver(f, S \ {b})

Total(h) == SumOver(h.values, DOMAIN h.values)

\* The scattergram that the records recs make by the rule of the claim.
RECURSIVE Filed(_, _)
Filed(sg, recs) ==
  IF recs = <<>> THEN sg
  ELSE LET h5lor == Head(recs)
           kind == IF Lt(Min(h5lor.E1, h5lor.E2), FromInt(511)) THEN "Scatter" ELSE "True"
       IN Filed(IF HasNaNCoordinate(h5lor) THEN sg ELSE Scattergram_fill(sg, kind, LOR_from(h5lor)),
                Tail(recs))

\* C15: fill_scattergram changes neither histogram for an input LOR with a
\* NaN in any of x1, y1, z1, x2, y2, z2 and files every other LOR, as Scatter
\* when min(E1, E2) < 511 and as True otherwise; so total(trues) +
\* total(scatters) is the number of input LORs without a NaN coordinate.
C15_SkipsAnyNaNCoordinate ==
  LET done == SubSeq(lors, 1, lor_pos)
  IN /\ sgram = Filed(Scattergram_new(Hist_new(sgram.trues.axes)), done)
     /\ Total(sgram.trues) + Total(sgram.scatters)
          = Cardinality({i \in 1..lor_pos : ~HasNaNCoordinate(lors[i])})

\* ------------------------------------------------------------ f32
\* The coordinates of the Cyclic axis are f32: finite values are dyadic
\* rationals with a significand of 24 bits, and the result of an addition or
\* subtraction is rounded to the nearest such value, ties to the even
\* significand.  (Exponent range: the values met are far from its ends.)
SignificandBits == 24

RECURSIVE Pow2(_)
Pow2(k) == IF k = 0 THEN 1 ELSE 2 * Pow2(k - 1)

\* The number of low bits of the integer n > 0 that do not fit the significand.
RECURSIVE ExcessBits(_)
ExcessBits(n) == IF n < Pow2(SignificandBits) THEN 0 ELSE 1 + ExcessBits(n \div 2)

\* The integer n >= 0 rounded to a multiple of 2^k, ties to even.
RoundInt(n, k) ==
  LET unit == Pow2(k)
      q == n \div unit
      r == n % unit
      up == 2 * r > unit \/ (2 * r = unit /\ q % 2 = 1)
  IN (IF up THEN q + 1 ELSE q) * unit

\* x (a dyadic rational, an infinity or NaN) rounded to f32.
RoundF32(x) ==
  IF ~IsFinite(x) THEN x
  ELSE LET n == AbsInt(x[1])
       IN Rat(SignInt(x[1]) * RoundInt(n, ExcessBits(n)), x[2])

\* ------------------------------------------------------------ Cyclic axis
\* A call that never returns.
Diverges == [some |-> FALSE, diverges |-> TRUE]

\* Cyclic::new (axis.rs:57-63).
Cyclic_new(nbins, low, high) == [axis |-> Uniform_new(nbins, low, high)]

\* Cyclic::num_bins (114-116).
Cyclic_num_bins(c) == Uniform_num_bins(c.axis) - 2

\* `while x >= hi { x = x - range }` (105-107).  x - range never exceeds x, so
\* the loop runs forever exactly when a subtraction returns x itself.
RECURSIVE WrapDown(_, _, _)
WrapDown(x, hi, range) ==
  IF Ge(x, hi)
  THEN LET y == RoundF32(Sub(x, range))
       IN IF y = x THEN Diverges ELSE WrapDown(y, hi, range)
  ELSE Some(x)

\* `while x < lo { x = x + range }` (108-110).
RECURSIVE WrapUp(_, _, _)
WrapUp(x, lo, range) ==
  IF Lt(x, lo)
  THEN LET y == RoundF32(Add(x, range))
       IN IF y = x THEN Diverges ELSE WrapUp(y, lo, range)
  ELSE Some(x)

\* Cyclic::index (102-112).  The bin arithmetic of the inner Uniform axis is
\* exact in f32 for the axes explored (range 1, nbins a power of 2).
Cyclic_index(c, coordinate) ==
  LET hi == c.axis.high
      lo == c.axis.low
      range == RoundF32(Sub(hi, lo))
      down == WrapDown(coordinate, hi, range)
  IN IF down = Diverges THEN Diverges
     ELSE LET up == WrapUp(down.val, lo, range)
          IN IF up = Diverges THEN Diverges
             ELSE LET n == Uniform_index(c.axis, up.val)
                  IN IF n.some THEN Some(n.val - 1) ELSE None

\* ndhistogram!(Cyclic::new(nbins, low, high); u8): one count per bin of the
\* axis, numbered 0..num_bins()-1.
CyclicHist_new(c) == [axis |-> c, values |-> [i \in 0..(Cyclic_num_bins(c) - 1) |-> 0]]

\* ------------------------------------------------------------ bounds
\* At most MaxCyclicFills calls of Histogram::fill are followed.
MaxCyclicFills == 2

\* The axes explored: Cyclic::new(nbins, 0.0, 1.0) (tests bin and index), with
\* 2 or 4 bins.
CyclicAxes == {Cyclic_new(nbins, Zero, One) : nbins \in {2, 4}}

\* The f32 coordinates explored: 0, 1/4, 5/4, -3/4, 7/8, 1, -2^-24, -2^-25
\* and 2^25.
CyclicCoordinates ==
  { Zero, Rat(1, 4), Rat(5, 4), Rat(-3, 4), Rat(7, 8), One,
    Rat(-1, Pow2(24)), Rat(-1, Pow2(25)), FromInt(Pow2(25)) }

InitCyclic ==
  /\ cyclic_hist \in {CyclicHist_new(c) : c \in CyclicAxes}
  /\ cyclic_filled = <<>>
  /\ cyclic_ret = [kind |-> "NotCalled"]
  /\ TraversalIdle /\ LorogramIdle /\ MlemIdle /\ TofIdle /\ GaussIdle /\ ReaderIdle /\ VoxelBoxIdle /\ LorAxesIdle

\* Histogram::fill(&x): add 1 to the bin of x, if the axis has a bin with the
\* index it returns.  A call whose wrap loop never ends does not return, and
\* nothing follows it.
CyclicFill ==
  /\ cyclic_ret.kind # "Diverges"
  /\ Len(cyclic_filled) < MaxCyclicFills
  /\ \E x \in CyclicCoordinates :
       LET i == Cyclic_index(cyclic_hist.axis, x)
       IN IF i = Diverges
          THEN /\ cyclic_ret' = [kind |-> "Diverges", coordinate |-> x]
               /\ UNCHANGED <<cyclic_hist, cyclic_filled>>
          ELSE /\ cyclic_hist' = IF i.some /\ i.val \in DOMAIN cyclic_hist.values
                                 THEN [cyclic_hist EXCEPT !.values[i.val] = @ + 1]
                                 ELSE cyclic_hist
               /\ cyclic_filled' = Append(cyclic_filled, x)
               /\ cyclic_ret' = [kind |-> "Filled", coordinate |-> x, index |-> i]
  /\ UNCHANGED <<traversal_vars, lorogram_vars, mlem_vars, tof_vars, gauss_vars, reader_vars, voxelbox_vars, axes_vars>>

\* Histogram::value(&x): the count of the bin of x, None if the axis has no
\* bin with the index it returns.
CyclicValue ==
  /\ cyclic_ret.kind # "Diverges"
  /\ \E x \in CyclicCoordinates :
       LET i == Cyclic_index(cyclic_hist.axis, x)
       IN IF i = Diverges
          THEN cyclic_ret' = [kind |-> "Diverges", coordinate |-> x]
          ELSE cyclic_ret' = [kind |-> "Value", coordinate |-> x, index |-> i,
                              value |-> IF i.some /\ i.val \in DOMAIN cyclic_hist.values
                                        THEN Some(cyclic_hist.values[i.val]) ELSE None]
  /\ UNCHANGED <<cyclic_hist, cyclic_filled, traversal_vars, lorogram_vars, mlem_vars, tof_vars, gauss_vars, reader_vars, voxelbox_vars, axes_vars>>

NextCyclic == CyclicFill \/ CyclicValue

SpecCyclic == InitCyclic /\ [][NextCyclic]_vars

\* ------------------------------------------------------------ claims on the Cyclic axis
\* x wrapped into [low, high), as a fraction of the range, in exact arithmetic.
WrappedFraction(c, x) ==
  LET f == Div(Sub(x, c.axis.low), Sub(c.axis.high, c.axis.low))
  IN Sub(f, Floor(f))

\* The equal-width bin, of 0..N-1, of x wrapped into [low, high).
WrappedBin(c, x) == AsUsize(Floor(Mul(FromInt(c.axis.num), WrappedFraction(c, x))))

\* x and y differ by a whole number of periods.
Congruent(c, x, y) == WrappedFraction(c, x) = WrappedFraction(c, y)

\* C13: on a Cyclic axis index(x) = index(x + k*(high - low)) for every
\* coordinate x and integer k, so fills and queries wrap around: a query at x
\* reads at least the fills made at coordinates a whole number of periods
\* from x.
C13_IndexIsPeriodic ==
  cyclic_ret.kind \in {"Filled", "Value"} =>
    /\ \A y \in CyclicCoordinates :
         Congruent(cyclic_hist.axis, cyclic_ret.coordinate, y)
           => Cyclic_index(cyclic_hist.axis, y) = cyclic_ret.index
    /\ cyclic_ret.kind = "Value" =>
         /\ cyclic_ret.value.some
         /\ cyclic_ret.value.val >=
              Cardinality({i \in 1..Len(cyclic_filled) :
                             Congruent(cyclic_hist.axis, cyclic_ret.coordinate, cyclic_filled[i])})

\* C14: a Cyclic axis built with N bins has num_bins() = N, and for every
\* finite coordinate x index(x) returns (its loops end) Some(i) with
\* 0 <= i < N, i the equal-width bin of x wrapped into [low, high).
C14_IndexInRange ==
  /\ Cyclic_num_bins(cyclic_hist.axis) = cyclic_hist.axis.axis.num
  /\ cyclic_ret.kind # "Diverges"
  /\ cyclic_ret.kind \in {"Filled", "Value"} =>
       /\ cyclic_ret.index.some
       /\ cyclic_ret.index.val \in 0..(cyclic_hist.axis.axis.num - 1)
       /\ cyclic_ret.index.val = WrappedBin(cyclic_hist.axis, cyclic_ret.coordinate)

\* ------------------------------------------------------------ MLEM
\* Image::mlem is called by src/src/bin/mlem.rs but is not part of the source
\* tree; it is modelled from sections 4.4 and 5 of the specification.  The
\* voxel stream of a LOR is that of WeightsAlongLOR, the additive correction
\* is Scattergram::value.  Sums are exact: the rounding of f32 additions,
\* which depends on their order, is not modelled.

\* ------------------------------------------------------------ bounds
\* At most MaxMlemLors measured LORs, MaxIterations iterations, NWorkers
\* parallel workers.
MaxMlemLors == 2
MaxIterations == 2
NWorkers == 2

Workers == 1..NWorkers

\* The field of view explored: 2 x 1 x 1 voxels of size (1, 2, 2).
MlemBox == VoxelBox_new(HalfWidth, <<2, 1, 1>>)

Voxels == {i \in [Axes -> 0..1] : \A k \in Axes : i[k] < MlemBox.n[k]}

\* The measured LORs explored: along x through both voxels, in both
\* directions; along y through voxel (1,0,0); and one that misses the box.
MlemLors ==
  { LOR_new(PointNew(-2, 0, 0), PointNew(2, 0, 0)),
    LOR_new(PointNew(2, 0, 0), PointNew(-2, 0, 0)),
    LOR_new(PointNew(0, -2, 0), PointNew(0, 2, 0)),
    LOR_new(PointNew(-2, 2, 0), PointNew(2, 2, 0)) }

\* The scattergrams explored: none; one never filled; one filled with a true
\* and a scatter in the bin r = 0.
FreshScattergram == Scattergram_new(Hist_new(<<axis_r(nbins_r, FromInt(r_max))>>))

MlemScattergrams ==
  LET lor == LOR_new(PointNew(-2, 0, 0), PointNew(2, 0, 0))
  IN { None, Some(FreshScattergram),
       Some(Scattergram_fill(Scattergram_fill(FreshScattergram, "True", lor), "Scatter", lor)) }

\* |p2 - p1| for the LORs explored.
LorLength(lor) ==
  LET d == VSub(lor.p2, lor.p1)
  IN Sqrt(Add(Add(Mul(d[1], d[1]), Mul(d[2], d[2])), Mul(d[3], d[3])))

\* Step 2a: the voxels (v, w) of the LOR, w the chord length.
VoxelStream(lor) ==
  LET items == Collect(new(lor.p1, lor.p2, MlemBox), MaxItems)
  IN [i \in 1..Len(items) |-> <<items[i][1], Mul(items[i][2], LorLength(lor))>>]

\* Step 2b: f_l, the sum of w * image_old[u] over the stream, plus the
\* scattergram's value at the LOR if a scattergram is supplied (a_l).
RECURSIVE WeightedSum(_, _)
WeightedSum(stream, img) ==
  IF stream = <<>> THEN Zero
  ELSE Add(Mul(stream[1][2], img[stream[1][1]]), WeightedSum(Tail(stream), img))

\* The LORs explored, each with the stream of voxels that step 2a gets for
\* it (the same every time it is regenerated).
MeasuredLors == {[lor |-> lor, stream |-> VoxelStream(lor)] : lor \in MlemLors}

\* The scattergram's value at each LOR explored (its additive correction a_l),
\* 0 if no scattergram is supplied.
AdditiveCorrection(scattergram) ==
  [lor \in MlemLors |-> IF scattergram.some THEN Scattergram_value(scattergram.val, lor) ELSE Zero]

ForwardProjection(stream, img, a_l) == Add(WeightedSum(stream, img), a_l)

\* A ratio that keeps the correction and forgets the forward projection.
RatioUndivided(c_l, f_l) == c_l

\* Step 2c: r_l = c_l / f_l.
Ratio(c_l, f_l) == Div(c_l, f_l)

\* The per-LOR multiplicative correction: 1.
Correction(lor) == One

ZeroImage == [v \in Voxels |-> Zero]
OnesImage == [v \in Voxels |-> One]

RECURSIVE SumShadows(_, _, _)
SumShadows(sh, v, w) == IF w = 0 THEN Zero ELSE Add(SumShadows(sh, v, w - 1), sh[w][v])

\* A reduction that keeps the last worker's buffer only.
ReduceLastOnly(bp, sh) == [v \in Voxels |-> Add(bp[v], sh[NWorkers][v])]

\* Discipline (a): the per-worker shadow buffers are summed into
\* back_projection at the end of the iteration.
Reduce(bp, sh) == [v \in Voxels |-> Add(bp[v], SumShadows(sh, v, NWorkers))]

\* Step 3: image_new[v] = image_old[v] * back_projection[v] / sens[v], and 0
\* where sens[v] == 0.
ImageNew(img, bp, sens) ==
  [v \in Voxels |-> IF sens[v] = Zero THEN Zero ELSE Div(Mul(img[v], bp[v]), sens[v])]

IdleWorker == [pc |-> "idle", r |-> Zero, todo |-> <<>>]

\* mlem(FOV, LORs, sensitivity_image, scattergram?) before its first
\* iteration: the uniform image, step 1 done.
InitMlem ==
  /\ measured_lors \in SeqsUpTo(MeasuredLors, MaxMlemLors)
  /\ sensitivity \in [Voxels -> {Zero, One}]
  /\ image = OnesImage
  /\ back_projection = ZeroImage
  /\ shadow = [w \in Workers |-> ZeroImage]
  /\ worker = [w \in Workers |-> IdleWorker]
  /\ \E d \in {"atomic", "shadow"}, sg \in MlemScattergrams :
       iteration = [n |-> 0, phase |-> "project", taken |-> {}, discipline |-> d,
                    scattergram |-> sg, additive |-> AdditiveCorrection(sg)]
  /\ TraversalIdle /\ LorogramIdle /\ CyclicIdle /\ TofIdle /\ GaussIdle /\ ReaderIdle /\ VoxelBoxIdle /\ LorAxesIdle

\* Steps 2a-2c on a worker: take a LOR not yet taken, compute f_l and r_l; a
\* LOR with f_l == 0 is skipped, and one with no voxels has nothing to add.
TakeLor(w) ==
  /\ iteration.phase = "project"
  /\ iteration.n < MaxIterations
  /\ worker[w].pc = "idle"
  /\ \E l \in (1..Len(measured_lors)) \ iteration.taken :
       LET lor == measured_lors[l].lor
           stream == measured_lors[l].stream
           f_l == ForwardProjection(stream, image, iteration.additive[lor])
       IN /\ iteration' = [iteration EXCEPT !.taken = @ \cup {l}]
          /\ worker' = IF f_l = Zero \/ stream = <<>> THEN worker
                       ELSE [worker EXCEPT ![w] = [pc |-> "adding", r |-> Ratio(Correction(lor), f_l),
                                                   todo |-> stream]]
  /\ UNCHANGED <<image, sensitivity, measured_lors, back_projection, shadow,
                 traversal_vars, lorogram_vars, cyclic_vars, tof_vars, gauss_vars, reader_vars, voxelbox_vars, axes_vars>>

\* Step 2d for one (v, w) of the worker's LOR: w * r_l is added to
\* back_projection[v] atomically, or to the worker's shadow buffer.
BackProject(w) ==
  /\ worker[w].pc = "adding"
  /\ LET v == worker[w].todo[1][1]
         x == Mul(worker[w].todo[1][2], worker[w].r)
     IN IF iteration.discipline = "atomic"
        THEN /\ back_projection' = [back_projection EXCEPT ![v] = Add(@, x)]
             /\ UNCHANGED shadow
        ELSE /\ shadow' = [shadow EXCEPT ![w][v] = Add(@, x)]
             /\ UNCHANGED back_projection
  /\ worker' = [worker EXCEPT ![w] = IF Len(@.todo) = 1 THEN IdleWorker
                                     ELSE [@ EXCEPT !.todo = Tail(@)]]
  /\ UNCHANGED <<image, sensitivity, measured_lors, iteration,
                 traversal_vars, lorogram_vars, cyclic_vars, tof_vars, gauss_vars, reader_vars, voxelbox_vars, axes_vars>>

\* The parallel section is over: every LOR was taken and every worker is
\* done.  The shadow buffers, if used, are reduced.
EndProjection ==
  /\ iteration.phase = "project"
  /\ iteration.n < MaxIterations
  /\ iteration.taken = 1..Len(measured_lors)
  /\ \A w \in Workers : worker[w].pc = "idle"
  /\ back_projection' = IF iteration.discipline = "shadow"
                        THEN Reduce(back_projection, shadow) ELSE back_projection
  /\ iteration' = [iteration EXCEPT !.phase = "reduced"]
  /\ UNCHANGED <<image, sensitivity, measured_lors, shadow, worker,
                 traversal_vars, lorogram_vars, cyclic_vars, tof_vars, gauss_vars, reader_vars, voxelbox_vars, axes_vars>>

\* Steps 3 and 4, and step 1 of the next iteration: the new image is yielded
\* and becomes image_old; a NaN in it halts the reconstruction.
YieldImage ==
  /\ iteration.phase = "reduced"
  /\ image' = ImageNew(image, back_projection, sensitivity)
  /\ iteration' = [iteration EXCEPT !.n = @ + 1, !.taken = {},
                     !.phase = IF \E v \in Voxels : IsNaN(image'[v]) THEN "halted" ELSE "project"]
  /\ back_projection' = ZeroImage
  /\ shadow' = [w \in Workers |-> ZeroImage]
  /\ UNCHANGED <<sensitivity, measured_lors, worker,
                 traversal_vars, lorogram_vars, cyclic_vars, tof_vars, gauss_vars, reader_vars, voxelbox_vars, axes_vars>>

NextMlem == (\E w \in Workers : TakeLor(w)) \/ (\E w \in Workers : BackProject(w)) \/ EndProjection \/ YieldImage

SpecMlem == InitMlem /\ [][NextMlem]_vars

\* ------------------------------------------------------------ claims on MLEM
RECURSIVE SumImageOver(_, _)
SumImageOver(img, S) ==
  IF S = {} THEN Zero
  ELSE LET v == CHOOSE v \in S : TRUE IN Add(img[v], SumImageOver(img, S \ {v}))

\* The total of an image.
SumImage(img) == SumImageOver(img, DOMAIN img)

\* The LOR passes through the field of view.
HitsFov(lor) == EntersInterior(lor.p1, lor.p2, MlemBox)

C17_ImageFiniteNonNegative ==
  \A v \in Voxels :
    /\ IsFinite(image[v]) /\ Ge(image[v], Zero)
    /\ IsFinite(back_projection[v]) /\ Ge(back_projection[v], Zero)
    /\ (iteration.n >= 1 /\ sensitivity[v] = Zero) => image[v] = Zero

\* The sum of w * r over the items (u, w) of a stream with u = v.
RECURSIVE AddedTo(_, _, _)
AddedTo(v, stream, r) ==
  IF stream = <<>> THEN Zero
  ELSE Add(IF stream[1][1] = v THEN Mul(stream[1][2], r) ELSE Zero, AddedTo(v, Tail(stream), r))

\* The sum over the LORs l .. of w_{l,v} * r_l, r_l = c_l / f_l, the LORs
\* with f_l = 0 left out.
RECURSIVE BackProjectionOf(_, _)
BackProjectionOf(v, l) ==
  IF l > Len(measured_lors) THEN Zero
  ELSE LET m == measured_lors[l]
           f_l == Add(WeightedSum(m.stream, image), iteration.additive[m.lor])
       IN Add(IF f_l = Zero THEN Zero ELSE AddedTo(v, m.stream, Div(One, f_l)),
              BackProjectionOf(v, l + 1))

\* C18: within one iteration, for every interleaving of the workers, the
\* final back_projection[v] is the sum over all LORs l of w_{l,v} * r_l, under
\* either discipline, and image_old, sensitivity and scattergram do not change
\* while the iteration runs.
C18_NoAdditionLost ==
  /\ [](iteration.phase = "reduced" =>
          \A v \in Voxels : back_projection[v] = BackProjectionOf(v, 1))
  /\ [][iteration.phase = "project" =>
          /\ image' = image
          /\ sensitivity' = sensitivity
          /\ iteration'.scattergram = iteration.scattergram
          /\ iteration'.additive = iteration.additive]_vars

\* C18 witness: an addition has landed and both workers are about to add to
\* one and the same voxel.
C18_Witness ==
  /\ \A w \in Workers : worker[w].pc = "adding"
  /\ worker[1].todo[1][1] = worker[2].todo[1][1]
  /\ \E v \in Voxels : back_projection[v] # Zero \/ \E w \in Workers : shadow[w][v] # Zero

\* ------------------------------------------------------------ TOF weighting
\* As everywhere along the LOR, lengths are in units of |p2 - p1|: sigma is
\* sigma / |p2 - p1| and the time difference enters as
\* dt = (t1 - t2) / |p2 - p1|.

\* const c : Length = 3e3
c == FromInt(3000)

\* |v| / |d| for a vector v along d; NaN if v has a NaN component.
NormAlong(v, d) ==
  IF \E k \in Axes : IsNaN(v[k]) THEN NaN
  ELSE IF \A k \in Axes : IsZero(v[k]) THEN Zero
  ELSE LET k == CHOOSE k \in Axes : ~IsZero(d[k]) IN Abs(Div(v[k], d[k]))

\* make_gauss(sigma)(x): the value a * exp(-z / 2) with a = 1 / (sigma *
\* root_two_pi), kept as sigma and z = ((x - mu) / sigma)^2, and a as its
\* factors.
make_gauss(sigma, x) ==
  LET mu == Zero
      root_two_pi == "sqrt(PI)"
      a == [sigma |-> sigma, root |-> root_two_pi]
      y == Div(Sub(x, mu), sigma)
      z == Mul(y, y)
  IN [sigma |-> sigma, z |-> z, a |-> a]

\* tof_gaussian(p1, t1, p2, t2, vbox, sigma): the adapter, a closure that
\* panics or one that holds distance_to_peak.
tof_gaussian(a, dt, b, box, sigma) ==
  LET found == entry(box, a, b)
  IN IF ~found.some THEN [tag |-> "Panics"]
     ELSE LET p1_to_entry == NormAlong(VSub(found.val, a), VSub(b, a))
              p1_to_peak == Mul(Rat(1, 2), Add(Norm(VSub(a, b)), Mul(c, dt)))
          IN [tag |-> "Adjusts", distance_to_peak |-> Sub(p1_to_peak, p1_to_entry),
              sigma |-> sigma]

\* The adapter closure without the update of line 418.
AdjustInPlace(adapter, item) ==
  LET weight == item[2]
      midpoint == Sub(adapter.distance_to_peak, Div(weight, FromInt(2)))
      g == make_gauss(adapter.sigma, midpoint)
  IN [adapter |-> adapter,
      item |-> [index |-> item[1], weight |-> weight, sigma |-> g.sigma, z |-> g.z,
                midpoint |-> midpoint]]

\* A call of the adapter closure on (index, weight) (lines 414-421): the
\* closure after it and the item it returns, the weight times the gaussian
\* kept as [weight, sigma, z].
Adjust(adapter, item) ==
  LET weight == item[2]
      midpoint == Sub(adapter.distance_to_peak, Div(weight, FromInt(2)))
      g == make_gauss(adapter.sigma, midpoint)
  IN [adapter |-> [adapter EXCEPT !.distance_to_peak = Sub(@, weight)],
      item |-> [index |-> item[1], weight |-> weight, sigma |-> g.sigma, z |-> g.z,
                midpoint |-> midpoint]]

\* The inputs explored: a box of 3 x 3 x 1 voxels of size 2, endpoints in the
\* plane z = 0, sigma as a fraction of |p2 - p1|, t1 - t2 per unit of |p2 - p1|.
TofBox == VoxelBox_new(PointNew(3, 3, 1), <<3, 3, 1>>)
TofPoints == {PointNew(x, y, 0) : x \in {-4, -3, -2, 0, 2, 3, 4}, y \in {-4, 0, 4}}
TofSigmas == {Rat(1, 2), FromInt(2)}
TofDts == {Zero, Rat(1, 6000)}

\* WeightsAlongLOR::new(p1, p2, &vbox).map(tof_gaussian(p1, t1, p2, t2, &vbox,
\* sigma)), before the first next().
InitTof ==
  /\ \E a \in TofPoints, b \in TofPoints, sigma \in TofSigmas, dt \in TofDts :
       tof = [p1 |-> a, p2 |-> b, dt |-> dt, ct |-> Mul(c, dt), sigma |-> sigma,
              vbox |-> TofBox, iter |-> new(a, b, TofBox),
              adapter |-> tof_gaussian(a, dt, b, TofBox, sigma),
              ret |-> "NotCalled"]
  /\ weighted = <<>>
  /\ TraversalIdle /\ LorogramIdle /\ CyclicIdle /\ MlemIdle /\ GaussIdle /\ ReaderIdle /\ VoxelBoxIdle /\ LorAxesIdle

\* next() of the mapped iterator while the traversal is Inside: the traversal
\* yields an item and the adapter is called on it; the panicking adapter
\* panics.  (Built without overflow checks.)
TofNext ==
  /\ tof.iter.tag = "Inside"
  /\ tof.ret \notin {"Panic", "AdapterPanic"}
  /\ Len(weighted) < MaxItems
  /\ IF tof.adapter.tag = "Panics"
     THEN /\ tof' = [tof EXCEPT !.iter = Advance(@), !.ret = "AdapterPanic"]
          /\ UNCHANGED weighted
     ELSE LET adjusted == Adjust(tof.adapter, Item(tof.iter))
          IN /\ tof' = [tof EXCEPT !.iter = Advance(@), !.adapter = adjusted.adapter,
                                   !.ret = "Some"]
             /\ weighted' = Append(weighted, adjusted.item)
  /\ UNCHANGED <<traversal_vars, lorogram_vars, cyclic_vars, mlem_vars, gauss_vars, reader_vars, voxelbox_vars, axes_vars>>

\* next() where the traversal's un-flip of the index underflows, built with
\* overflow checks: the traversal panics before the adapter is called.
TofNextPanic ==
  /\ tof.iter.tag = "Inside"
  /\ tof.ret \notin {"Panic", "AdapterPanic"}
  /\ Len(weighted) < MaxItems
  /\ Underflows(tof.iter)
  /\ tof' = [tof EXCEPT !.ret = "Panic"]
  /\ UNCHANGED <<weighted, traversal_vars, lorogram_vars, cyclic_vars, mlem_vars, gauss_vars, reader_vars, voxelbox_vars, axes_vars>>

\* next() once the traversal is Outside: None.
TofEnd ==
  /\ tof.iter.tag = "Outside"
  /\ tof' = [tof EXCEPT !.ret = "None"]
  /\ UNCHANGED <<weighted, traversal_vars, lorogram_vars, cyclic_vars, mlem_vars, gauss_vars, reader_vars, voxelbox_vars, axes_vars>>

NextTof == TofNext \/ TofNextPanic \/ TofEnd

SpecTof == InitTof /\ [][NextTof]_vars

\* ------------------------------------------------------------ claims on the TOF weighting
\* Two adjusted weights w * a * exp(-z / 2) are equal: for rational w and z
\* this is so only if the weights and the exponents are.
SameWeight(g, h) == g.weight = h.weight /\ g.z = h.z /\ g.sigma = h.sigma

\* g.weight * exp(-g.z / 2) < h.weight * exp(-h.z / 2), that is
\* q < exp(d) for q = g.weight / h.weight and d = (g.z - h.z) / 2, decided
\* with 1 + x < exp(x) < 1 / (1 - x) for 0 < x < 1; no value where these
\* bounds do not decide.
StrictlyLess(g, h) ==
  LET q == Div(g.weight, h.weight)
      d == Div(Sub(g.z, h.z), FromInt(2))
      x == Abs(d)
  IN /\ IsFinite(g.weight) /\ IsFinite(h.weight) /\ IsFinite(d)
     /\ Gt(g.weight, Zero) /\ Gt(h.weight, Zero)
     /\ CASE IsZero(d) -> Lt(q, One)
          [] Gt(d, Zero) /\ Lt(q, Add(One, x)) -> TRUE
          [] Gt(d, Zero) /\ Lt(x, One) /\ Ge(q, Div(One, Sub(One, x))) -> FALSE
          [] Lt(d, Zero) /\ Ge(q, One) -> FALSE
          [] Lt(d, Zero) /\ Lt(x, One) /\ Ge(Div(One, q), Div(One, Sub(One, x))) -> TRUE
          [] Lt(d, Zero) /\ Le(Div(One, q), Add(One, x)) -> FALSE

\* The LOR is symmetric about the centre of the FOV, and t1 = t2.
SymmetricLor == tof.p1 = [k \in Axes |-> Neg(tof.p2[k])] /\ tof.p1 # tof.p2 /\ tof.ct = Zero

\* Item i and its mirror image along the LOR have equal weights.
SymmetricWeights ==
  \A i \in 1..Len(weighted) : SameWeight(weighted[i], weighted[Len(weighted) + 1 - i])

\* The weights strictly increase from the first item to the middle one(s).
IncreasingToCentre ==
  \A i \in 1..Len(weighted) :
    2 * (i + 1) <= Len(weighted) + 1 => StrictlyLess(weighted[i], weighted[i + 1])

\* C19: for a LOR through the FOV centre, symmetric about it, with t1 = t2,
\* the TOF-weighted weights are symmetric about the centre and strictly
\* increase from the edge voxel to the centre voxel.
C19_SymmetricAndIncreasing ==
  (SymmetricLor /\ tof.ret = "None") =>
    /\ Len(weighted) >= 1
    /\ SymmetricWeights
    /\ IncreasingToCentre

\* C20: tof_gaussian decides hit or miss as WeightsAlongLOR::new does, for
\* every LOR, so the adapter built for a miss, which panics when called, is
\* never called in WeightsAlongLOR::new(..).map(tof_gaussian(..)).
C20_AdapterNeverPanics ==
  /\ tof.ret # "AdapterPanic"
  /\ (tof.adapter.tag = "Panics") = (new(tof.p1, tof.p2, tof.vbox).tag = "Outside")
  /\ (tof.adapter.tag = "Panics") = ~entry(tof.vbox, tof.p1, tof.p2).some

\* C20 witness: a LOR mirrored by the traversal on some axis, whose item went
\* through the adapter.
C20_Witness ==
  /\ \E k \in Axes : Flipped(tof.p1, tof.p2)[k]
  /\ tof.ret = "Some"
  /\ Len(weighted) >= 1

\* ------------------------------------------------------------ gauss.rs
\* Lengths of this part are in units of C * 1 ns, the distance light covers
\* in a nanosecond, so that a time in nanoseconds times C is the same number.
C == One

\* make_gauss(sigma, cutoff) of gauss.rs: the closure, with what it captures.
\* peak_height = 1 / (sigma * root_two_pi) is kept as its factors.
gauss_make_gauss(sigma, cutoff) ==
  LET root_two_pi == "sqrt(TWOPI)"
      peak_height == [sigma |-> sigma, root |-> root_two_pi]
  IN [sigma |-> sigma, peak_height |-> peak_height,
      cutoff |-> IF cutoff.some THEN Mul(cutoff.val, sigma) ELSE PosInf]

\* The closure with the comparison of line 13 turned into <=.
gauss_call_inclusive(g, dx) ==
  IF Le(Abs(dx), g.cutoff)
  THEN LET y == Div(dx, g.sigma)
           z == Mul(y, y)
       IN [branch |-> "exp", peak_height |-> g.peak_height, z |-> z]
  ELSE [branch |-> "ZERO", peak_height |-> g.peak_height, z |-> Zero]

\* A call of that closure on dx (lines 12-20): the branch it takes and, on
\* the first branch, the value peak_height * exp(-z / 2), kept as
\* peak_height and z (the exponential itself is exact: it is never 0).
gauss_call(g, dx) ==
  IF Lt(Abs(dx), g.cutoff)
  THEN LET y == Div(dx, g.sigma)
           z == Mul(y, y)
       IN [branch |-> "exp", peak_height |-> g.peak_height, z |-> z]
  ELSE [branch |-> "ZERO", peak_height |-> g.peak_height, z |-> Zero]

\* make_gauss_option(sigma, cutoff)
make_gauss_option(sigma, cutoff) ==
  IF sigma.some THEN Some(gauss_make_gauss(Mul(sigma.val, C), cutoff)) ELSE None

\* The inputs explored: sigma in nanoseconds or not configured, the cutoff in
\* sigmas or disabled, dx on both sides of and on every cutoff, and far out.
GaussSigmas == {None} \cup {Some(Rat(1, 2)), Some(One), Some(FromInt(2))}
GaussCutoffs == {None} \cup {Some(One), Some(FromInt(3)), Some(FromInt(40))}
GaussDx ==
  LET far == {Rat(1, 2), One, Rat(3, 2), FromInt(2), FromInt(3), FromInt(6),
              FromInt(19), FromInt(20), FromInt(39), FromInt(40), FromInt(80)}
  IN {Zero, PosInf, NegInf} \cup far \cup {Neg(x) : x \in far}

InitGauss ==
  /\ \E sigma \in GaussSigmas, cutoff \in GaussCutoffs :
       gauss = [sigma |-> sigma, cutoff |-> cutoff,
                closure |-> make_gauss_option(sigma, cutoff)]
  /\ gauss_ret = [kind |-> "NotCalled"]
  /\ TraversalIdle /\ LorogramIdle /\ CyclicIdle /\ MlemIdle /\ TofIdle
  /\ ReaderIdle /\ VoxelBoxIdle /\ LorAxesIdle

\* A call of the closure returned by make_gauss_option.
GaussCall ==
  /\ gauss.closure.some
  /\ \E dx \in GaussDx :
       gauss_ret' = [kind |-> "Returned", dx |-> dx,
                     value |-> gauss_call(gauss.closure.val, dx)]
  /\ UNCHANGED <<gauss, traversal_vars, lorogram_vars, cyclic_vars, mlem_vars, tof_vars,
                 reader_vars, voxelbox_vars, axes_vars>>

\* A call of the gaussian that make_gauss of weights.rs builds for the same
\* sigma.
WeightsGaussCall ==
  /\ gauss.sigma.some
  /\ \E dx \in GaussDx :
       LET g == make_gauss(Mul(gauss.sigma.val, C), dx)
       IN gauss_ret' = [kind |-> "ReturnedByWeights", dx |-> dx,
                        value |-> [branch |-> "exp", peak_height |-> g.a, z |-> g.z]]
  /\ UNCHANGED <<gauss, traversal_vars, lorogram_vars, cyclic_vars, mlem_vars, tof_vars,
                 reader_vars, voxelbox_vars, axes_vars>>

NextGauss == GaussCall \/ WeightsGaussCall

SpecGauss == InitGauss /\ [][NextGauss]_vars

\* ------------------------------------------------------------ claims on gauss.rs
\* The value returned is exactly 0.
IsExactlyZero(value) == value.branch = "ZERO"

\* The value returned is strictly positive: a positive peak height times an
\* exponential.
IsPositive(value) == value.branch = "exp" /\ Gt(value.peak_height.sigma, Zero)

MaxTable == 2

\* A BoundPair: a pair of std::ops::Bound, and RangeBounds::contains on it.
Unbounded == [kind |-> "Unbounded", val |-> Zero]
Included(x) == [kind |-> "Included", val |-> x]
BoundPair_contains(pair, x) ==
  /\ CASE pair[1].kind = "Included" -> Le(pair[1].val, x)
       [] pair[1].kind = "Excluded" -> Lt(pair[1].val, x)
       [] pair[1].kind = "Unbounded" -> TRUE
  /\ CASE pair[2].kind = "Included" -> Le(x, pair[2].val)
       [] pair[2].kind = "Excluded" -> Lt(x, pair[2].val)
       [] pair[2].kind = "Unbounded" -> TRUE

\* read_table with the records already in memory: the slice
\* table[range], the whole table for None.
read_table(table, range) ==
  IF range.some THEN SubSeq(table, range.val[1] + 1, range.val[2]) ELSE table

\* Event::to_lor: the polar coordinates of the event are turned into x and y
\* with cos and sin; the LOR is kept as the event it came from.
Event_to_lor(e, use_true) == [event |-> e, use_true |-> use_true]

\* The records explored: Hdf5Lor with energies and charges inside and outside
\* the cuts below and a NaN energy; Event for the legacy format.
ReaderEnergies == {<<FromInt(511), FromInt(511)>>, <<FromInt(511), FromInt(400)>>,
                   <<NaN, FromInt(511)>>}
ReaderCharges == {<<FromInt(15), FromInt(15)>>, <<FromInt(5), FromInt(15)>>}
ReaderHdf5Lors ==
  {[x1 |-> One, y1 |-> Zero, z1 |-> Zero, x2 |-> Neg(One), y2 |-> Zero, z2 |-> One,
    E1 |-> e[1], E2 |-> e[2], q1 |-> q[1], q2 |-> q[2]] :
     e \in ReaderEnergies, q \in ReaderCharges}
ReaderEvents == {[event_id |-> i] : i \in 1..2}
Ecuts == {<<Unbounded, Unbounded>>, <<Included(FromInt(500)), Included(FromInt(520))>>}
Qcuts == {<<Unbounded, Unbounded>>, <<Included(FromInt(10)), Included(FromInt(20))>>}
EventRanges(n) == {None} \cup {Some(<<lo, hi>>) : lo \in 0..n, hi \in 0..n}

\* read_lors(args) once read_table has returned Ok (line 90 or 101), before
\* the first record goes through the iterator chain.
InitReadLors ==
  /\ \E legacy \in BOOLEAN, ecut \in Ecuts, qcut \in Qcuts :
     \E table \in SeqsUpTo(IF legacy THEN ReaderEvents ELSE ReaderHdf5Lors, MaxTable) :
     \E range \in {r \in EventRanges(Len(table)) : r.some => r.val[1] <= r.val[2]} :
       h5table = [legacy_input_format |-> legacy, use_true |-> FALSE, table |-> table,
                  event_range |-> range, ecut |-> ecut, qcut |-> qcut]
  /\ reader = [data |-> read_table(h5table.table, h5table.event_range), pos |-> 0,
               it |-> <<>>, rejected |-> 0, ret |-> [kind |-> "NotReturned"]]
  /\ TraversalIdle /\ LorogramIdle /\ CyclicIdle /\ MlemIdle /\ TofIdle
  /\ GaussIdle /\ VoxelBoxIdle /\ LorAxesIdle

\* One record through the chain: filter and map (lines 92-98), or map alone
\* for the legacy format (line 103).
ReadLorsRecord ==
  /\ reader.pos < Len(reader.data)
  /\ LET rec == reader.data[reader.pos + 1]
     IN IF h5table.legacy_input_format
        THEN reader' = [reader EXCEPT !.pos = @ + 1,
                          !.it = Append(@, Event_to_lor(rec, h5table.use_true))]
        ELSE LET eok == BoundPair_contains(h5table.ecut, rec.E1)
                          /\ BoundPair_contains(h5table.ecut, rec.E2)
                 qok == BoundPair_contains(h5table.qcut, rec.q1)
                          /\ BoundPair_contains(h5table.qcut, rec.q2)
             IN IF eok /\ qok
                THEN reader' = [reader EXCEPT !.pos = @ + 1, !.it = Append(@, LOR_from(rec))]
                ELSE reader' = [reader EXCEPT !.pos = @ + 1, !.rejected = @ + 1]
  /\ UNCHANGED <<h5table, traversal_vars, lorogram_vars, cyclic_vars, mlem_vars, tof_vars,
                 gauss_vars, voxelbox_vars, axes_vars>>

\* Lines 106-110: the percentage is computed, the counts are printed and the
\* LORs returned; the usize division panics on a zero divisor.
ReadLorsReturn ==
  /\ reader.pos = Len(reader.data)
  /\ reader.ret.kind = "NotReturned"
  /\ LET used == Len(reader.it)
     IN reader' = [reader EXCEPT !.ret =
          IF used + reader.rejected = 0
          THEN [kind |-> "Panic", used |-> used, rejected |-> reader.rejected, used_pct |-> 0]
          ELSE [kind |-> "Ok", used |-> used, rejected |-> reader.rejected,
                used_pct |-> (100 * used) \div (used + reader.rejected)]]
  /\ UNCHANGED <<h5table, traversal_vars, lorogram_vars, cyclic_vars, mlem_vars, tof_vars,
                 gauss_vars, voxelbox_vars, axes_vars>>

NextReadLors == ReadLorsRecord \/ ReadLorsReturn

SpecReadLors == InitReadLors /\ [][NextReadLors]_vars

\* ------------------------------------------------------------ claims on read_lors
\* x lies within the inclusive bounds of the cut.
Within(cut, x) ==
  /\ cut[1].kind = "Unbounded" \/ Le(cut[1].val, x)
  /\ cut[2].kind = "Unbounded" \/ Le(x, cut[2].val)

\* The records of the range that pass both cuts, as LORs, in order.
RECURSIVE Kept(_)
Kept(recs) ==
  IF recs = <<>> THEN <<>>
  ELSE LET rec == Head(recs)
           ok == /\ Within(h5table.ecut, rec.E1) /\ Within(h5table.ecut, rec.E2)
                 /\ Within(h5table.qcut, rec.q1) /\ Within(h5table.qcut, rec.q2)
       IN (IF ok THEN <<LOR_from(rec)>> ELSE <<>>) \o Kept(Tail(recs))

\* The records of the table that the event range selects.
InRangeRecords ==
  IF h5table.event_range.some
  THEN [i \in 1..(h5table.event_range.val[2] - h5table.event_range.val[1]) |->
          h5table.table[h5table.event_range.val[1] + i]]
  ELSE h5table.table

\* C22: read_lors returns successfully for every readable table, range and
\* cuts; it keeps exactly the records whose E1, E2 lie within ecut and q1, q2
\* within qcut; kept + rejected is the number of records in the range; when
\* no record survives it returns an empty list and reports the counts.
C22_ReadLorsReturnsAndCounts ==
  (reader.pos = Len(reader.data) /\ reader.ret.kind # "NotReturned") =>
    /\ reader.ret.kind = "Ok"
    /\ reader.ret.used + reader.ret.rejected = Len(InRangeRecords)
    /\ reader.ret.used = Len(reader.it)
    /\ ~h5table.legacy_input_format => reader.it = Kept(InRangeRecords)

\* ------------------------------------------------------------ claims on LORs parallel to an axis
\* The LOR has positive length and its direction has no component on axis k.
ParallelTo(k) == p1 # p2 /\ p1[k] = p2[k]

TofInput == Collect(new(tof.p1, tof.p2, tof.vbox), Len(weighted))

\* p1_to_peak - p1_to_entry, from the endpoints: half of the length of the
\* LOR plus c (t1 - t2), less the distance from p1 to the point of entry.
PeakFromEntry ==
  LET p1_to_peak == Div(Add(One, tof.ct), FromInt(2))
      p1_to_entry == NormAlong(VSub(entry(tof.vbox, tof.p1, tof.p2).val, tof.p1),
                               VSub(tof.p2, tof.p1))
  IN Sub(p1_to_peak, p1_to_entry)

\* The sum of the lengths of the first n items.
RECURSIVE LengthsBefore(_, _)
LengthsBefore(items, n) ==
  IF n = 0 THEN Zero ELSE Add(LengthsBefore(items, n - 1), items[n][2])

\* C24: before the j-th item distance_to_peak is p1_to_peak - p1_to_entry
\* less the lengths of the j-1 items seen; item (i, d) is emitted as
\* (i, d * g(distance_to_peak - d/2)); one item out per item in, with the
\* index unchanged and in the same order.
C24_RunningPosition ==
  tof.adapter.tag = "Adjusts" =>
    LET items == TofInput
    IN /\ Len(items) = Len(weighted)
       /\ tof.adapter.distance_to_peak = Sub(PeakFromEntry, LengthsBefore(items, Len(items)))
       /\ \A j \in 1..Len(weighted) :
            LET before == Sub(PeakFromEntry, LengthsBefore(items, j - 1))
                d == items[j][2]
                mid == Sub(before, Div(d, FromInt(2)))
            IN /\ weighted[j].index = items[j][1]
               /\ weighted[j].weight = d
               /\ weighted[j].midpoint = mid
               /\ weighted[j].sigma = tof.sigma
               /\ weighted[j].z = Mul(Div(mid, tof.sigma), Div(mid, tof.sigma))

\* C24 witness: a LOR of positive length whose stream is drained after the
\* adapter has adjusted three items or more.
C24_Witness ==
  /\ tof.p1 # tof.p2
  /\ tof.adapter.tag = "Adjusts"
  /\ tof.ret = "None"
  /\ Len(weighted) >= 3

\* ------------------------------------------------------------ claims on the TOF peak
\* Where the adapter puts the peak, as a distance from p1 in units of
\* |p2 - p1|: its distance_to_peak before the first item, plus the distance
\* from p1 to the point of entry.
PeakFromP1 ==
  Add(tof.adapter.distance_to_peak,
      NormAlong(VSub(entry(tof.vbox, tof.p1, tof.p2).val, tof.p1), VSub(tof.p2, tof.p1)))

\* (|p2 - p1| + C (t1 - t2)) / 2 in the same units, for a speed of light of
\* C mm/ns.
PeakAt(C_mm_per_ns) == Div(Add(One, Mul(C_mm_per_ns, tof.dt)), FromInt(2))

\* C25: the peak lies (|p2 - p1| + C (t1 - t2)) / 2 from p1 with C the speed
\* of light in mm/ns, between 299 and 300; for t1 = t2 it is the midpoint of
\* the LOR, and t1 > t2 moves it away from p1.
C25_PeakPosition ==
  (tof.ret = "NotCalled" /\ tof.adapter.tag = "Adjusts" /\ tof.p1 # tof.p2) =>
    /\ Le(Min(PeakAt(FromInt(299)), PeakAt(FromInt(300))), PeakFromP1)
    /\ Le(PeakFromP1, Max(PeakAt(FromInt(299)), PeakAt(FromInt(300))))
    /\ IsZero(tof.dt) => PeakFromP1 = Rat(1, 2)
    /\ Gt(tof.dt, Zero) => Gt(PeakFromP1, Rat(1, 2))

\* ------------------------------------------------------------ claims on the normalisation
\* The normalised gaussian of width sigma at x: 1 / (sigma * sqrt(2 pi))
\* times exp(-(x / sigma)^2 / 2), in the form the values are kept in.
Normalised(sigma, x) ==
  [branch |-> "exp", peak_height |-> [sigma |-> sigma, root |-> "sqrt(TWOPI)"],
   z |-> Mul(Div(x, sigma), Div(x, sigma))]

\* C26: both constructors, make_gauss of weights.rs and make_gauss of
\* gauss.rs (where it is not cut off), return the normalised gaussian: peak
\* height 1 / (sigma * sqrt(2 pi)) at 0, times exp(-(x / sigma)^2 / 2) at x.
C26_BothNormalised ==
  LET sigma == Mul(gauss.sigma.val, C)
      cut == gauss_ret.kind = "Returned" /\ gauss_ret.value.branch = "ZERO"
  IN (gauss_ret.kind \in {"Returned", "ReturnedByWeights"} /\ ~cut) =>
       gauss_ret.value = Normalised(sigma, gauss_ret.dx)

\* ------------------------------------------------------------ the LOR axes, one at a time
\* std::f32::consts::PI, in units of 2^-22 rad (the unit of the last place of
\* an f32 between 2 and 4); every angle of this section is in these units.
PI == FromInt(13176795)

\* f32::atan2 (y.atan2(x)) for the directions explored: the multiples of
\* pi/4, and the directions 2^-25 rad away from the x axis.  The result is
\* the set of the f32 values a faithfully rounding libm can return: the
\* angle pi - 2^-25 lies between two f32 values, and so does its negative.
atan2(y, x) ==
  LET tiny == Rat(1, Pow2(25))
  IN CASE IsZero(y) /\ IsZero(x) -> {Zero}
       [] IsZero(y) /\ Gt(x, Zero) -> {Zero}
       [] IsZero(y) /\ Lt(x, Zero) -> {PI}
       [] IsZero(x) /\ Gt(y, Zero) -> {Div(PI, FromInt(2))}
       [] IsZero(x) /\ Lt(y, Zero) -> {Neg(Div(PI, FromInt(2)))}
       [] Gt(x, Zero) /\ y = x -> {Div(PI, FromInt(4))}
       [] Gt(x, Zero) /\ y = Neg(x) -> {Neg(Div(PI, FromInt(4)))}
       [] Lt(x, Zero) /\ y = Neg(x) -> {RoundF32(Mul(Rat(3, 4), PI))}
       [] Lt(x, Zero) /\ y = x -> {Neg(RoundF32(Mul(Rat(3, 4), PI)))}
       [] Gt(x, Zero) /\ y = Mul(tiny, x) -> {Rat(1, 8)}
       [] Gt(x, Zero) /\ y = Neg(Mul(tiny, x)) -> {Rat(-1, 8)}
       [] Lt(x, Zero) /\ y = Neg(Mul(tiny, x)) -> {PI, Sub(PI, One)}
       [] Lt(x, Zero) /\ y = Mul(tiny, x) -> {Neg(PI), Neg(Sub(PI, One))}

\* phi_of_x_y (line 101).
phi_of_x_y(x, y) == atan2(y, x)

\* phi (lines 95-99): the values the angle of the LOR in the x-y plane can take.
phi(lor) ==
  LET dx == Sub(lor.p2[1], lor.p1[1])
      dy == Sub(lor.p2[2], lor.p1[2])
  IN phi_of_x_y(dx, dy)

\* axis_phi (lines 124-129): a Cyclic axis over [0, PI) mapped by phi.
axis_phi(nbins) == [axis |-> Cyclic_new(nbins, Zero, PI), map |-> "phi"]

\* MappedAxis::index (lines 67-69) for either kind of inner axis: the
\* indices the LOR can get.
LorAxis_index(ax, lor) ==
  IF ax.map = "phi"
  THEN {Cyclic_index(ax.axis, x) : x \in phi(lor)}
  ELSE {MappedAxis_index(ax, lor)}

\* MappedAxis::num_bins (lines 71-73).
LorAxis_num_bins(ax) ==
  IF ax.map = "phi" THEN Cyclic_num_bins(ax.axis) ELSE Uniform_num_bins(ax.axis)

\* ndhistogram!(axis; usize): one count per bin of the axis.
Hist1D_new(ax) == [axis |-> ax, values |-> [i \in 0..(LorAxis_num_bins(ax) - 1) |-> 0]]

\* ------------------------------------------------------------ bounds
\* At most MaxAxisFills calls of Lorogram::fill are followed.
MaxAxisFills == 2

\* The axes explored: z in 2 bins over [-10, 10], dz in 2 bins over [0, 10],
\* r in 2 bins over [0, 80], phi in 3 bins (no explored direction lies on a
\* bin edge, so the bin arithmetic of the inner Uniform axis does not depend
\* on the rounding of its quotient).
LorAxes ==
  { axis_z(2, FromInt(-10), FromInt(10)), axis_dz(2, FromInt(10)),
    axis_r(2, FromInt(80)), axis_phi(3) }

SwapEnds(lor) == LOR_new(lor.p2, lor.p1)

\* The LORs explored on the z, dz and r axes, each in both orientations.
PlainLors ==
  LET one == { LOR_new(<<FromInt(-64), FromInt(30), FromInt(0)>>, <<FromInt(64), FromInt(30), FromInt(8)>>),
               LOR_new(<<FromInt(50), FromInt(-64), FromInt(-9)>>, <<FromInt(50), FromInt(64), FromInt(-5)>>),
               LOR_new(<<FromInt(-3), FromInt(6), FromInt(-8)>>, <<FromInt(0), FromInt(10), FromInt(4)>>) }
  IN one \cup {SwapEnds(l) : l \in one}

\* The LORs explored on the phi axis, each in both orientations: along x,
\* along y, along both diagonals, and 2^-25 rad below and above the x axis.
PhiLors ==
  LET tiny == Rat(1, Pow2(18))
      one == { LOR_new(<<FromInt(-64), Zero, Zero>>, <<FromInt(64), Zero, FromInt(8)>>),
               LOR_new(<<Zero, FromInt(-64), Zero>>, <<Zero, FromInt(64), FromInt(8)>>),
               LOR_new(<<FromInt(-64), FromInt(-64), Zero>>, <<FromInt(64), FromInt(64), FromInt(8)>>),
               LOR_new(<<FromInt(64), FromInt(-64), Zero>>, <<FromInt(-64), FromInt(64), FromInt(8)>>),
               LOR_new(<<FromInt(-64), Zero, Zero>>, <<FromInt(64), Neg(tiny), FromInt(8)>>),
               LOR_new(<<FromInt(-64), Zero, Zero>>, <<FromInt(64), tiny, FromInt(8)>>) }
  IN one \cup {SwapEnds(l) : l \in one}

LorsOf(ax) == IF ax.map = "phi" THEN PhiLors ELSE PlainLors

InitLorAxes ==
  /\ lorogram \in {Hist1D_new(ax) : ax \in LorAxes}
  /\ lorogram_filled = <<>>
  /\ lorogram_ret = [kind |-> "NotCalled"]
  /\ TraversalIdle /\ LorogramIdle /\ CyclicIdle /\ MlemIdle /\ TofIdle /\ GaussIdle /\ ReaderIdle /\ VoxelBoxIdle

\* Lorogram::fill of Hist1D (line 185, Histogram::fill): add 1 to the bin of
\* the LOR, if the axis has a bin with the index it returns.  A call whose
\* wrap loop never ends does not return, and nothing follows it.
LorAxisFill ==
  /\ lorogram_ret.kind # "Diverges"
  /\ Len(lorogram_filled) < MaxAxisFills
  /\ \E lor \in LorsOf(lorogram.axis) : \E i \in LorAxis_index(lorogram.axis, lor) :
       IF i = Diverges
       THEN /\ lorogram_ret' = [kind |-> "Diverges", lor |-> lor]
            /\ UNCHANGED <<lorogram, lorogram_filled>>
       ELSE /\ lorogram' = IF i.some /\ i.val \in DOMAIN lorogram.values
                           THEN [lorogram EXCEPT !.values[i.val] = @ + 1]
                           ELSE lorogram
            /\ lorogram_filled' = Append(lorogram_filled, lor)
            /\ lorogram_ret' = [kind |-> "Filled", lor |-> lor, index |-> i]
  /\ UNCHANGED <<traversal_vars, lorogram_vars, cyclic_vars, mlem_vars, tof_vars, gauss_vars, reader_vars, voxelbox_vars>>

\* Lorogram::value of Hist1D (line 186): the count of the bin of the LOR, 0
\* if the axis has no bin with the index it returns.
LorAxisValue ==
  /\ lorogram_ret.kind # "Diverges"
  /\ \E lor \in LorsOf(lorogram.axis) : \E i \in LorAxis_index(lorogram.axis, lor) :
       IF i = Diverges
       THEN lorogram_ret' = [kind |-> "Diverges", lor |-> lor]
       ELSE lorogram_ret' =
              [kind |-> "Value", lor |-> lor, index |-> i,
               value |-> IF i.some /\ i.val \in DOMAIN lorogram.values
                         THEN lorogram.values[i.val] ELSE 0]
  /\ UNCHANGED <<lorogram, lorogram_filled>>
  /\ UNCHANGED <<traversal_vars, lorogram_vars, cyclic_vars, mlem_vars, tof_vars, gauss_vars, reader_vars, voxelbox_vars>>

NextLorAxes == LorAxisFill \/ LorAxisValue

SpecLorAxes == InitLorAxes /\ [][NextLorAxes]_vars

\* ------------------------------------------------------------ claims on the LOR axes
\* The number of fills so far with the LOR or with its endpoints swapped.
FillsOfLine(lor) ==
  Cardinality({k \in 1..Len(lorogram_filled) : lorogram_filled[k] \in {lor, SwapEnds(lor)}})

\* C27: on every axis (z of the midpoint, |dz|, distance from the z axis,
\* phi) a LOR and the LOR with its endpoints swapped get the same bin, so a
\* count filled with one orientation is read back with the other.
C27_OrientationIndependent ==
  /\ lorogram_ret.kind \in {"Filled", "Value"} =>
       \A j \in LorAxis_index(lorogram.axis, SwapEnds(lorogram_ret.lor)) :
         j = lorogram_ret.index
  /\ lorogram_ret.kind = "Value" =>
       lorogram_ret.value >= FillsOfLine(lorogram_ret.lor)

\* ------------------------------------------------------------ VoxelBox::voxel_centre
\* VoxelBox::voxel_centre (weights.rs:334-336):
\* i.map(|n| n as f64 + 0.5).component_mul(&self.voxel_size).into()
voxel_centre(box, i) ==
  component_mul([k \in Axes |-> Add(AsLength(i[k]), Rat(1, 2))], box.voxel_size)

\* The half-widths explored, those of the boxes of weights.rs and mlem.rs.
VoxelBoxHalfWidths ==
  {PointNew(1, 1, 1), PointNew(3, 3, 1), PointNew(30, 30, 30), PointNew(90, 90, 45)}

VoxelBoxes ==
  {VoxelBox_new(d, n) : d \in VoxelBoxHalfWidths, n \in [Axes -> 1..MaxN]}

InitVoxelBox ==
  /\ vcentre \in {[vbox |-> box, ret |-> None] : box \in VoxelBoxes}
  /\ TraversalIdle /\ LorogramIdle /\ CyclicIdle /\ MlemIdle /\ TofIdle /\ GaussIdle /\ ReaderIdle /\ LorAxesIdle

\* A call vbox.voxel_centre(i) for a voxel of the box.
VoxelCentre ==
  /\ \E i \in VoxelsOf(vcentre.vbox) :
       vcentre' = [vbox |-> vcentre.vbox, i |-> i, ret |-> Some(voxel_centre(vcentre.vbox, i))]
  /\ UNCHANGED <<traversal_vars, lorogram_vars, cyclic_vars, mlem_vars, tof_vars, gauss_vars, reader_vars, axes_vars>>

NextVoxelBox == VoxelCentre

SpecVoxelBox == InitVoxelBox /\ [][NextVoxelBox]_vars

\* ------------------------------------------------------------ claims on VoxelBox
\* The centre of voxel i with the origin at the centre of the box.
CentreFromFovCentre(box, i) ==
  VSub(component_mul([k \in Axes |-> Add(AsLength(i[k]), Rat(1, 2))], box.voxel_size),
       box.half_width)

\* C28: voxel_size is 2 * half_width / n on every axis, and voxel_centre(i)
\* is (i + 1/2) * voxel_size - half_width on every axis, a point of the box
\* [-half_width, +half_width]; voxel (0,0,0) has the most negative centre.
C28_VoxelSizeAndCentre ==
  LET box == vcentre.vbox
  IN /\ \A k \in Axes :
          box.voxel_size[k] = Div(Mul(FromInt(2), box.half_width[k]), AsLength(box.n[k]))
     /\ vcentre.ret.some =>
          /\ vcentre.ret.val = CentreFromFovCentre(box, vcentre.i)
          /\ \A k \in Axes :
               /\ Le(Neg(box.half_width[k]), vcentre.ret.val[k])
               /\ Le(vcentre.ret.val[k], box.half_width[k])
               /\ vcentre.i[k] = 0 => Lt(vcentre.ret.val[k], Zero)

\* ------------------------------------------------------------ claims on the effect of Scattergram::fill
\* Histogram after is histogram before with exactly one bin incremented by 1.
OneBinMore(before, after) ==
  \E b \in DOMAIN before.values :
    after = [before EXCEPT !.values[b] = @ + 1]

\* The step is a call of Scattergram::fill that returned, with this kind.
FillStep(kind) ==
  /\ Len(filled') = Len(filled) + 1
  /\ filled'[Len(filled')][1] = kind

\* C29: fill(True, l) increments exactly one bin of trues by 1 and leaves
\* scatters unchanged, fill(Scatter, l) does the same with the histograms
\* exchanged, fill(Random, l) panics and changes neither histogram, and
\* value and triplet change nothing.
C29_FillEffect ==
  [][ /\ FillStep("True") => OneBinMore(sgram.trues, sgram'.trues) /\ sgram'.scatters = sgram.scatters
      /\ FillStep("Scatter") => OneBinMore(sgram.scatters, sgram'.scatters) /\ sgram'.trues = sgram.trues
      /\ sgram_ret'.kind \in {"Panic", "Triplet"} => sgram' = sgram /\ filled' = filled
    ]_vars

\* ------------------------------------------------------------ claims on the positivity of the steps
\* C30: every length yielded by WeightsAlongLOR is strictly positive, and
\* while the iterator is Inside every component of to_boundary is strictly
\* positive between steps.
C30_StepsArePositive ==
  /\ \A i \in 1..Len(hits) : Gt(hits[i][2], Zero)
  /\ iter.tag = "Inside" => \A k \in Axes : Gt(iter.to_boundary[k], Zero)
====
